---- MODULE Spec2Model ----
(***************************************************************************)
(* Model of the formula-resolution engine of actuarialmath (class          *)
(* Recursion and its tracer Blog, src/src/actuarialmath.egg-info/PKG-INFO  *)
(* lines 28-1309).                                                         *)
(*                                                                         *)
(* Numbers are exact rationals <<n, d>> in lowest terms with d > 0; the    *)
(* pairs with d = 0 are the non-numeric outcomes of a call:                *)
(* None (Python's None), Raise (the call raised an exception), Collab (a   *)
(* value computed by the collaborator, opaque here) and Super (the call is *)
(* handed to the collaborator's closed form, super()).                     *)
(***************************************************************************)
EXTENDS Integers, Sequences, FiniteSets, TLC

VARIABLES db, blog, out, last, prev, interest, maxdepth, parent, nsets, ncalls,
          verbose, frame, peer

vars == <<db, blog, out, last, prev, interest, maxdepth, parent, nsets, ncalls,
          verbose, frame, peer>>

(***************************************************************************)
(* Bounds of the model.                                                    *)
(***************************************************************************)
MaxAge == 2
MaxSets == 2
MaxDepth == 2
MaxCalls == 1

(***************************************************************************)
(* Exact rational arithmetic.                                              *)
(***************************************************************************)
None == <<0, 0>>
Raise == <<1, 0>>
Collab == <<2, 0>>
Super == <<3, 0>>

IsVal(r) == r[2] > 0

Abs(n) == IF n < 0 THEN -n ELSE n

RECURSIVE Gcd(_, _)
Gcd(a, b) == IF b = 0 THEN a ELSE Gcd(b, a % b)

Norm(n, d) ==
    LET g == Gcd(Abs(n), Abs(d))
        sg == IF d < 0 THEN -1 ELSE 1
    IN  <<sg * (n \div g), sg * (d \div g)>>

R(n) == <<n, 1>>

Add(a, b) ==
    LET g == Gcd(a[2], b[2])
    IN  Norm(a[1] * (b[2] \div g) + b[1] * (a[2] \div g), a[2] * (b[2] \div g))

Neg(a) == <<-a[1], a[2]>>

Sub(a, b) == Add(a, Neg(b))

Mul(a, b) ==
    LET g1 == Gcd(Abs(a[1]), b[2])
        g2 == Gcd(Abs(b[1]), a[2])
    IN  Norm((a[1] \div g1) * (b[1] \div g2), (a[2] \div g2) * (b[2] \div g1))

\* a / b; Python raises ZeroDivisionError when b is zero
Div(a, b) == IF b[1] = 0 THEN Raise ELSE Mul(a, Norm(b[2], b[1]))

RECURSIVE Pow(_, _)
Pow(a, k) == IF k <= 0 THEN R(1) ELSE Mul(a, Pow(a, k - 1))

\* Python truthiness of a result: neither None nor zero
Truthy(r) == IsVal(r) /\ r[1] # 0

(***************************************************************************)
(* Collaborator constants and interest-theory conversions (class Reserves  *)
(* and its interest object; their code is outside src/).                   *)
(***************************************************************************)
WHOLE == -999
VARIANCE == -2

add_term(t, n) == IF t = WHOLE \/ n = WHOLE THEN WHOLE ELSE t + n

interest_v == Div(R(1), Add(R(1), interest))
interest_d == Mul(interest, interest_v)
interest_v_t(t) == Pow(interest_v, t)

insurance_twin(a) == Sub(R(1), Mul(interest_d, a))
annuity_twin(A) == Div(Sub(R(1), A), interest_d)

(***************************************************************************)
(* Fact store: db_key, db_put and the per-kind get_ / set_ operations.     *)
(* A key is the tuple db_key builds: the kind, then the keyword values.    *)
(* A setter yields [db |-> the store after the call, exc |-> it raised].   *)
(***************************************************************************)
db_key_q(x, t, u) == <<"q", x, t, u>>
db_key_p(x, t) == <<"p", x, t>>
db_key_e(x, t, curtate, moment) == <<"e", x, t, curtate, moment>>
db_key_E(x, t, moment) == <<"E", x, t, moment>>
db_key_IA(x, t, discrete) == <<"IA", x, t, discrete>>
db_key_DA(x, t, discrete) == <<"DA", x, t, discrete>>
db_key_A(x, u, t, moment, endowment, discrete) ==
    <<"A", x, u, t, moment, endowment, discrete>>
db_key_a(x, u, t, variance, discrete) == <<"a", x, u, t, variance, discrete>>

\* self.db.get(key, None)
db_get(key) == IF key \in DOMAIN db THEN db[key] ELSE None

db_put(key, value) ==
    IF value = None /\ key \in DOMAIN db
    THEN [k \in DOMAIN db \ {key} |-> db[k]]
    ELSE [k \in DOMAIN db \cup {key} |-> IF k = key THEN value ELSE db[k]]

Stored(d) == [db |-> d, exc |-> FALSE]
Raised == [db |-> db, exc |-> TRUE]

\* val /= b : TypeError for None, ZeroDivisionError for b = 0
DivAmount(val, b) == IF val = None THEN Raise ELSE Div(val, R(b))

get_q(x, s, t, u) == db_get(db_key_q(x + s, t, u))

set_q(val, x, s, t, u) == Stored(db_put(db_key_q(x + s, t, u), val))

\* (variant: the key is built from the age at selection alone)
get_p_at_selection(x, s, t) ==
    IF t = 0 THEN R(1)
    ELSE IF t < 0 THEN R(0)
    ELSE db_get(db_key_p(x, t))

get_p(x, s, t) ==
    IF t = 0 THEN R(1)
    ELSE IF t < 0 THEN R(0)
    ELSE db_get(db_key_p(x + s, t))

set_p(val, x, s, t) == Stored(db_put(db_key_p(x + s, t), val))

get_e(x, s, t, curtate, moment) == db_get(db_key_e(x + s, t, curtate, moment))

set_e(val, x, s, t, curtate, moment) ==
    Stored(db_put(db_key_e(x + s, t, curtate, moment), val))

get_E(x, s, t, endowment, moment) ==
    LET val == db_get(db_key_E(x + s, t, moment))
    IN  IF val # None THEN Mul(val, R(endowment)) ELSE None

set_E(val, x, s, t, endowment, moment) ==
    LET v1 == DivAmount(val, endowment)
    IN  IF v1 = Raise THEN Raised
        ELSE Stored(db_put(db_key_E(x + s, t, moment), v1))

get_IA(x, s, t, b, discrete) ==
    LET val == db_get(db_key_IA(x + s, t, discrete))
    IN  IF val # None THEN Mul(val, R(b)) ELSE None

set_IA(val, x, s, t, b, discrete) ==
    LET v1 == DivAmount(val, b)
    IN  IF v1 = Raise THEN Raised
        ELSE Stored(db_put(db_key_IA(x + s, t, discrete), v1))

get_DA(x, s, t, b, discrete) ==
    LET val == db_get(db_key_DA(x + s, t, discrete))
    IN  IF val # None THEN Mul(val, R(b)) ELSE None

set_DA(val, x, s, t, b, discrete) ==
    LET v1 == DivAmount(val, b)
    IN  IF v1 = Raise THEN Raised
        ELSE Stored(db_put(db_key_DA(x + s, t, discrete), v1))

get_A(x, s, u, t, b, moment, endowment, discrete) ==
    LET endow == IF endowment < 0 THEN b ELSE endowment
        scale == IF b = 0 THEN endow ELSE b
        kendow == IF b = 0 THEN R(1) ELSE Norm(endow, b)
        val == db_get(db_key_A(x + s, u, t, moment, kendow, discrete))
    IN  IF t = 0 THEN R(endow)
        ELSE IF val # None THEN Mul(val, R(scale)) ELSE None

set_A(val, x, s, t, u, b, moment, endowment, discrete) ==
    LET endow == IF endowment < 0 THEN b ELSE endowment
        v1 == IF endow = 0 THEN DivAmount(val, b)
              ELSE IF b = 0 THEN DivAmount(val, endow)
              ELSE IF b # 1 THEN DivAmount(val, b) ELSE val
        kendow == IF endow = 0 THEN R(0)
                  ELSE IF b = 0 THEN R(endow)
                  ELSE Norm(endow, b)
    IN  IF v1 = Raise THEN Raised
        ELSE Stored(db_put(db_key_A(x + s, u, t, moment, kendow, discrete), v1))

get_a(x, s, u, t, b, variance, discrete) ==
    LET val == db_get(db_key_a(x + s, u, t, variance, discrete))
    IN  IF val # None THEN Mul(val, R(b)) ELSE None

set_a(val, x, s, t, u, b, variance, discrete) ==
    LET v1 == DivAmount(val, b)
    IN  IF v1 = Raise THEN Raised
        ELSE Stored(db_put(db_key_a(x + s, u, t, variance, discrete), v1))

(***************************************************************************)
(* Derivation tracer (class Blog).  A message is the tuple of the literal  *)
(* skeleton of its text followed by the numbers its terms print, so two    *)
(* messages are equal exactly when their texts are.                        *)
(***************************************************************************)
NewBlog == [_history |-> <<>>, _depths |-> <<>>, _rules |-> <<>>]

SeqRange(q) == {q[j] : j \in 1..Len(q)}

\* (variant: the message is inserted whether or not it is already recorded)
Blog_call_always_inserts(h, msg, depth, rule) ==
    [_history |-> <<msg>> \o h._history,
     _depths |-> <<depth>> \o h._depths,
     _rules |-> <<rule>> \o h._rules]

Blog_call(h, msg, depth, rule) ==
    IF msg \in SeqRange(h._history)
    THEN h
    ELSE [_history |-> <<msg>> \o h._history,
          _depths |-> <<depth>> \o h._depths,
          _rules |-> <<rule>> \o h._rules]

WL(t) == IF t >= 0 THEN t ELSE -1
B01(b) == IF b THEN 1 ELSE 0

Blog_q(x, s, t, u) == <<x + s, t, IF u > 0 THEN u ELSE 0>>
Blog_p(x, s, t) == <<x + s, t>>
Blog_e(x, s, t, curtate, moment) == <<x + s, WL(t), moment, B01(curtate)>>
Blog_E(x, s, t, endowment, moment) == <<x + s, WL(t), moment, endowment>>
Blog_IA(x, s, t, b) == <<x + s, WL(t), b>>
Blog_DA(x, s, t, b) == <<x + s, WL(t), b>>
Blog_A(x, s, t, u, b, moment, endowment) ==
    <<x + s, WL(t), u, b, endowment, moment>>
Blog_a(x, s, t, u, b, variance) == <<x + s, WL(t), u, b, B01(variance)>>
Blog_m(moment) == <<moment>>
Blog_m_endow(moment, endow) == IF endow # 0 THEN <<1, moment>> ELSE <<0, 0>>

(***************************************************************************)
(* Resolver results: Ret is a return (a value, None, or Raise for an       *)
(* exception leaving the call), Fall is control falling through to the     *)
(* next identity; both carry the tracer as the call left it.               *)
(***************************************************************************)
\* the next step of a resolver runs only if the step before it returned
\* nothing; it continues from the tracer that step left
Then(c, F(_)) == IF c.done THEN c ELSE F(c.h)

Ret(r, h) == [r |-> r, h |-> h, done |-> TRUE]
Fall(h) == [r |-> None, h |-> h, done |-> FALSE]

\* the depth budget of a collateral lookup
Collateral(depth) == 1 - Abs(depth)

\* self.<f>(...): a call of a method of the engine by its name
RECURSIVE Call(_, _, _, _)

(***************************************************************************)
(* Mortality u|t_q_x                                                       *)
(***************************************************************************)
\* (variant: the two factors are added)
defer_mortality_sum(pu, qt) == Add(pu, qt)

defer_mortality(pu, qt) == Mul(pu, qt)

limit_mortality(qt, qu) == Sub(qt, qu)

complement_survival(pu, pt) == Sub(pu, pt)

\* (variant: the limit identity is tried before the defer identity)
_q_x_deferred_limit_first(h, x, s, t, u, depth) ==
    LET pu == Call("_p_x", h, <<x, s, u>>, depth - 1)
        qt == get_q(x, s + u, t, 0)
        qu == get_q(x, s, u, 0)
        qt2 == get_q(x, s, u + t, 0)
    IN  IF qu # None /\ qt2 # None
        THEN Ret(limit_mortality(qt2, qu),
                 Blog_call(h, <<"q = q - q">> \o Blog_q(x, s, t, u)
                                \o Blog_q(x, s, t + u, 0) \o Blog_q(x, s, u, 0),
                           depth, "limit mortality"))
        ELSE IF pu.r = Raise THEN pu
        ELSE IF pu.r # None /\ qt # None
        THEN Ret(defer_mortality(pu.r, qt),
                 Blog_call(pu.h, <<"q = p * q">> \o Blog_q(x, s, t, u)
                                   \o Blog_p(x, s, u) \o Blog_q(x, s + u, t, 0),
                           depth, "defer mortality"))
        ELSE Fall(pu.h)

\* the u > 0 block of _q_x: defer, then limit
_q_x_deferred(h, x, s, t, u, depth) ==
    LET pu == Call("_p_x", h, <<x, s, u>>, depth - 1)
        qt == get_q(x, s + u, t, 0)
        qu == get_q(x, s, u, 0)
        qt2 == get_q(x, s, u + t, 0)
    IN  IF pu.r = Raise THEN pu
        ELSE IF pu.r # None /\ qt # None
        THEN Ret(defer_mortality(pu.r, qt),
                 Blog_call(pu.h, <<"q = p * q">> \o Blog_q(x, s, t, u)
                                   \o Blog_p(x, s, u) \o Blog_q(x, s + u, t, 0),
                           depth, "defer mortality"))
        ELSE IF qu # None /\ qt2 # None
        THEN Ret(limit_mortality(qt2, qu),
                 Blog_call(pu.h, <<"q = q - q">> \o Blog_q(x, s, t, u)
                                   \o Blog_q(x, s, t + u, 0) \o Blog_q(x, s, u, 0),
                           depth, "limit mortality"))
        ELSE Fall(pu.h)

_q_x_complement(h, x, s, t, u, depth) ==
    LET pu == Call("_p_x", h, <<x, s, u>>, depth - 1)
        pt == Call("_p_x", pu.h, <<x, s, u + t>>, depth - 1)
    IN  IF pu.r = Raise THEN pu
        ELSE IF pt.r = Raise THEN pt
        ELSE IF pu.r # None /\ pt.r # None
        THEN Ret(complement_survival(pu.r, pt.r),
                 Blog_call(pt.h, <<"q = p - p">> \o Blog_q(x, s, t, u)
                                   \o Blog_p(x, s, u) \o Blog_p(x, s, t + u),
                           depth, "complement survival"))
        ELSE Ret(None, pt.h)

_q_x(h, x, s, t, u, depth) ==
    LET found == get_q(x, s, t, u)
    IN  IF found # None THEN Ret(found, h)
        ELSE IF t = 0 THEN Ret(R(0), h)
        ELSE IF t < 0 THEN Ret(R(1), h)
        ELSE Then(IF u > 0 THEN _q_x_deferred(h, x, s, t, u, depth) ELSE Fall(h),
                  LAMBDA h1 : IF depth <= 0 THEN Ret(None, h1)
                              ELSE _q_x_complement(h1, x, s, t, u, depth))

(***************************************************************************)
(* Survival t_p_x                                                          *)
(***************************************************************************)
\* (variant: the mortality is returned in place of its complement)
complement_of_mortality_as_is(q) == q

complement_of_mortality(q) == Sub(R(1), q)

\* (variant: the inverse chain rule multiplies where it divides)
_p_x_chain_product(h, x, s, t, depth, s1, t1, s2, divide) ==
    LET found == Call("_p_x", h, <<x, s1, t1>>, depth - 1)
        p == Call("_p_x", found.h, <<x, s2, 1>>, Collateral(depth))
    IN  IF found.r = Raise THEN found
        ELSE IF p.r = Raise THEN p
        ELSE IF found.r # None /\ p.r # None
        THEN Ret(Mul(found.r, p.r),
                 Blog_call(p.h, <<IF divide THEN "p = p / p" ELSE "p = p * p">>
                                  \o Blog_p(x, s, t) \o Blog_p(x, s1, t1)
                                  \o Blog_p(x, s2, 1),
                           depth, "survival chain rule"))
        ELSE Fall(p.h)

\* one of the four chain-rule identities: found at (s1, t1) with budget
\* depth-1, the one-year factor at s2 with the collateral budget
_p_x_chain(h, x, s, t, depth, s1, t1, s2, divide) ==
    LET found == Call("_p_x", h, <<x, s1, t1>>, depth - 1)
        p == Call("_p_x", found.h, <<x, s2, 1>>, Collateral(depth))
    IN  IF found.r = Raise THEN found
        ELSE IF p.r = Raise THEN p
        ELSE IF found.r # None /\ p.r # None
        THEN Ret(IF divide THEN Div(found.r, p.r) ELSE Mul(found.r, p.r),
                 Blog_call(p.h, <<IF divide THEN "p = p / p" ELSE "p = p * p">>
                                  \o Blog_p(x, s, t) \o Blog_p(x, s1, t1)
                                  \o Blog_p(x, s2, 1),
                           depth, "survival chain rule"))
        ELSE Fall(p.h)

_p_x_endowment(h, x, s, depth) ==
    LET E == Call("_E_x", h, <<x, s, 1, 1, 1>>, depth - 1)
    IN  IF E.r = Raise THEN E
        ELSE IF E.r # None
        THEN Ret(Div(E.r, interest_v),
                 Blog_call(E.h, <<"p = E /v">> \o Blog_p(x, s, 1)
                                  \o Blog_E(x, s, 1, 1, 1),
                           depth, "one-year endowment"))
        ELSE Fall(E.h)

\* one round of the loop over _t in [WHOLE, 2] of the annuity recursion
_p_x_annuity(h, x, s, depth, tt) ==
    LET a == Call("_a_x", h, <<x, s, tt, 0, 1, TRUE, FALSE>>, depth - 1)
        a1 == Call("_a_x", a.h, <<x, s + 1, add_term(tt, -1), 0, 1, TRUE, FALSE>>, depth - 1)
    IN  IF a.r = Raise THEN a
        ELSE IF a1.r = Raise THEN a1
        ELSE IF a.r # None /\ a1.r # None
        THEN Ret(Div(Sub(a.r, R(1)), Mul(interest_v, a1.r)),
                 Blog_call(a1.h, <<"p = [ a - 1 ] / [ v * a ]">> \o Blog_p(x, s, 1)
                                   \o Blog_a(x, s, tt, 0, 1, FALSE)
                                   \o Blog_a(x, s + 1, tt - 1, 0, 1, FALSE),
                           depth, "annuity recursion"))
        ELSE Fall(a1.h)

\* one round of the loop over _t in [WHOLE, 2] of the insurance recursion
_p_x_insurance(h, x, s, depth, tt) ==
    LET A == Call("_A_x", h, <<x, s, tt, 0, 1, TRUE, 0, 1>>, depth - 1)
        A1 == Call("_A_x", A.h, <<x, s + 1, add_term(tt, -1), 0, 1, TRUE, 0, 1>>, depth - 1)
    IN  IF A.r = Raise THEN A
        ELSE IF A1.r = Raise THEN A1
        ELSE IF A.r # None /\ A1.r # None
        THEN Ret(Div(Sub(interest_v, A.r), Mul(interest_v, Sub(R(1), A1.r))),
                 Blog_call(A1.h, <<"p = [ v - A ] / [v * [ 1 - A ]]">>
                                   \o Blog_p(x, s, 1)
                                   \o Blog_A(x, s, tt, 0, 1, 1, 0)
                                   \o Blog_A(x, s + 1, tt - 1, 0, 1, 1, 0),
                           depth, "insurance recursion"))
        ELSE Fall(A1.h)

\* the t == 1 block of _p_x
_p_x_one_year(h, x, s, depth) ==
    Then(_p_x_endowment(h, x, s, depth), LAMBDA h1 :
    Then(_p_x_annuity(h1, x, s, depth, WHOLE), LAMBDA h2 :
    Then(_p_x_annuity(h2, x, s, depth, 2), LAMBDA h3 :
    Then(_p_x_insurance(h3, x, s, depth, WHOLE), LAMBDA h4 :
    _p_x_insurance(h4, x, s, depth, 2)))))

\* the t > 1 block of _p_x
_p_x_forward(h, x, s, t, depth) ==
    Then(_p_x_chain(h, x, s, t, depth, s + 1, t - 1, s, FALSE), LAMBDA h1 :
    _p_x_chain(h1, x, s, t, depth, s, t - 1, s + t - 1, FALSE))

_p_x(h, x, s, t, depth) ==
    LET found == get_p(x, s, t)
        q == get_q(x, s, t, 0)
    IN  IF found # None THEN Ret(found, h)
        ELSE IF q # None
        THEN Ret(complement_of_mortality(q),
                 Blog_call(h, <<"p = 1 - q">> \o Blog_p(x, s, t) \o Blog_q(x, s, t, 0),
                           depth, "complement of mortality"))
        ELSE IF depth <= 0 THEN Ret(None, h)
        ELSE
        Then(_p_x_chain(h, x, s, t, depth, s - 1, t + 1, s - 1, TRUE), LAMBDA h1 :
        Then(_p_x_chain(h1, x, s, t, depth, s, t + 1, s + t, TRUE), LAMBDA h2 :
        Then(IF t > 1 THEN _p_x_forward(h2, x, s, t, depth) ELSE Fall(h2), LAMBDA h3 :
        Then(IF t = 1 THEN _p_x_one_year(h3, x, s, depth) ELSE Fall(h3), LAMBDA h4 :
        Ret(None, h4)))))

(***************************************************************************)
(* Expected future lifetime e_x                                            *)
(***************************************************************************)
\* the t > 0 block of _e_x: the curtate shortcut and the temporary lifetime
_e_x_term(h, x, s, t, curtate, depth) ==
    LET p_t == Call("_p_x", h, <<x, s, t>>, 1)
        e == Call("_e_x", p_t.h, <<x, s, WHOLE, curtate, 1>>, depth - 1)
        e_t == Call("_e_x", e.h, <<x, s + t, WHOLE, curtate, 1>>, depth - 1)
    IN  IF p_t.r = Raise THEN p_t
        ELSE IF t = 1 /\ curtate
        THEN Ret(p_t.r,
                 Blog_call(p_t.h, <<"e = p">> \o Blog_e(x, s, 1, curtate, 1)
                                    \o Blog_p(x, s, 1),
                           depth, "1-year curtate shortcut"))
        ELSE IF t > 1
        THEN IF e.r = Raise THEN e
             ELSE IF e_t.r = Raise THEN e_t
             ELSE IF e.r # None /\ e_t.r # None /\ p_t.r # None
             THEN Ret(Sub(e.r, Mul(p_t.r, e_t.r)),
                      Blog_call(e_t.h, <<"e = e - p * e">>
                                         \o Blog_e(x, s, t, FALSE, 1)
                                         \o Blog_e(x, s, WHOLE, FALSE, 1)
                                         \o Blog_p(x, s, 1)
                                         \o Blog_e(x, s + t, WHOLE, FALSE, 1),
                                depth, "temporary lifetime"))
             ELSE Fall(e_t.h)
        ELSE Fall(p_t.h)

_e_x_forward(h, x, s, t, curtate, depth) ==
    LET e == Call("_e_x", h, <<x, s - 1, add_term(t, 1), curtate, 1>>, depth - 1)
        e1 == Call("_e_x", e.h, <<x, s - 1, 1, curtate, 1>>, depth - 1)
        p == Call("_p_x", e1.h, <<x, s - 1, 1>>, 1)
    IN  IF e.r = Raise THEN e
        ELSE IF e1.r = Raise THEN e1
        ELSE IF p.r = Raise THEN p
        ELSE IF e.r # None /\ e1.r # None /\ p.r # None
        THEN Ret(Div(Sub(e.r, e1.r), p.r),
                 Blog_call(p.h, <<"e = e + p * e">> \o Blog_e(x, s, t, FALSE, 1)
                                  \o Blog_e(x, s, t, FALSE, 1) \o Blog_p(x, s, 1)
                                  \o Blog_e(x, s + t, WHOLE, FALSE, 1),
                           depth, "lifetime forward recursion"))
        ELSE Fall(p.h)

_e_x_backward(h, x, s, t, curtate, depth) ==
    LET e == Call("_e_x", h, <<x, s, 1, curtate, 1>>, depth - 1)
        e_t == Call("_e_x", e.h, <<x, s + 1, add_term(t, -1), curtate, 1>>, depth - 1)
        p == Call("_p_x", e_t.h, <<x, s, 1>>, 1)
    IN  IF e.r = Raise THEN e
        ELSE IF e_t.r = Raise THEN e_t
        ELSE IF p.r = Raise THEN p
        ELSE IF e.r # None /\ e_t.r # None /\ p.r # None
        THEN Ret(Add(e.r, Mul(p.r, e_t.r)),
                 Blog_call(p.h, <<"e = e + p * e">> \o Blog_e(x, s, t, FALSE, 1)
                                  \o Blog_e(x, s, 1, FALSE, 1) \o Blog_p(x, s, 1)
                                  \o Blog_e(x, s + 1, t - 1, FALSE, 1),
                           depth, "lifetime backward recursion"))
        ELSE Ret(None, p.h)

_e_x(h, x, s, t, curtate, moment, depth) ==
    LET found == get_e(x, s, t, curtate, moment)
    IN  IF found # None THEN Ret(found, h)
        ELSE IF depth <= 0 THEN Ret(None, h)
        ELSE IF moment # 1 THEN Ret(None, h)
        ELSE
        Then(IF t > 0 THEN _e_x_term(h, x, s, t, curtate, depth) ELSE Fall(h),
             LAMBDA h1 :
        Then(_e_x_forward(h1, x, s, t, curtate, depth), LAMBDA h2 :
        _e_x_backward(h2, x, s, t, curtate, depth)))

(***************************************************************************)
(* Pure endowment t_E_x                                                    *)
(***************************************************************************)
\* (1) the shortcut for moment > 1
_E_x_moments(h, x, s, t, endowment, moment, depth) ==
    LET E == Call("_E_x", h, <<x, s, 1, endowment, 1>>, depth)
    IN  IF E.r = Raise THEN E
        ELSE IF Truthy(E.r)
        THEN Ret(Mul(E.r, Pow(interest_v, moment - 1)),
                 Blog_call(E.h, <<"E = v(t=)^ * E">> \o Blog_E(x, s, t, 1, moment)
                                  \o <<t>> \o Blog_m(moment) \o Blog_E(x, s, t, 1, 1),
                           depth, "moments of pure endowment"))
        ELSE Fall(E.h)

\* (2) survival times discount
_E_x_survival(h, x, s, t, endowment, moment, depth) ==
    LET p == Call("_p_x", h, <<x, s, t>>, depth - 1)
    IN  IF p.r = Raise THEN p
        ELSE IF p.r # None
        THEN Ret(Mul(p.r, Pow(Mul(R(endowment), interest_v_t(t)), moment)),
                 Blog_call(p.h, <<"E = p * v(t=)^">> \o Blog_E(x, s, t, 1, 1)
                                  \o Blog_p(x, s, t) \o <<t>> \o Blog_m(moment),
                           depth, "pure endowment"))
        ELSE Fall(p.h)

\* (3) endowment insurance minus term insurance
_E_x_insurance(h, x, s, t, endowment, moment, depth) ==
    LET At == Call("_A_x", h, <<x, s, t, 0, endowment, TRUE, 0, moment>>, depth - 1)
        A == Call("_A_x", At.h,
                  <<x, s, t, 0, endowment, TRUE, endowment, moment>>, Collateral(depth))
    IN  IF At.r = Raise THEN At
        ELSE IF A.r = Raise THEN A
        ELSE IF A.r # None /\ At.r # None
        THEN Ret(Sub(A.r, At.r),
                 Blog_call(A.h, <<"E = A - A">> \o Blog_E(x, s, t, 1, 1)
                                  \o Blog_A(x, s, t, 0, 1, 1, endowment)
                                  \o Blog_A(x, s, t, 0, 1, 1, 0),
                           depth, "endowment insurance minus term"))
        ELSE Fall(A.h)

\* (4) chain rule
_E_x_chain(h, x, s, t, endowment, moment, depth) ==
    LET E == Call("_E_x", h, <<x, s, 1, 1, moment>>, Collateral(depth))
        Et == Call("_E_x", E.h, <<x, s + 1, t - 1, 1, moment>>, depth - 1)
    IN  IF E.r = Raise THEN E
        ELSE IF Et.r = Raise THEN Et
        ELSE IF E.r # None /\ Et.r # None
        THEN Ret(Mul(Mul(E.r, Et.r), Pow(R(endowment), moment)),
                 Blog_call(Et.h, <<"E = E * E *">> \o Blog_E(x, s, t, 1, moment)
                                   \o Blog_E(x, s, 1, 1, moment)
                                   \o Blog_E(x, s + 1, t - 1, 1, moment)
                                   \o Blog_m_endow(moment, endowment),
                           depth, "pure endowment chain rule"))
        ELSE Ret(None, Et.h)

_E_x(h, x, s, t, endowment, moment, depth) ==
    LET E == get_E(x, s, t, endowment, moment)
    IN  IF E # None THEN Ret(E, h)
        ELSE IF t < 0 THEN Ret(R(0), h)
        ELSE IF t = 0 THEN Ret(Pow(R(endowment), moment), h)
        ELSE
        Then(IF moment > 1 THEN _E_x_moments(h, x, s, t, endowment, moment, depth)
             ELSE Fall(h), LAMBDA h1 :
        Then(_E_x_survival(h1, x, s, t, endowment, moment, depth), LAMBDA h2 :
        IF depth <= 0 THEN Ret(None, h2)
        ELSE
        Then(_E_x_insurance(h2, x, s, t, endowment, moment, depth), LAMBDA h3 :
        _E_x_chain(h3, x, s, t, endowment, moment, depth))))

(***************************************************************************)
(* Increasing insurance IA_x:t and decreasing insurance DA_x:t             *)
(***************************************************************************)
\* (1) identity with term and decreasing insurance
_IA_x_identity(h, x, s, t, b, discrete, depth) ==
    LET A == Call("_A_x", h, <<x, s, t, 0, b, discrete, 0, 1>>, depth - 1)
        n == t + B01(discrete)
        DA == Call("_DA_x", A.h, <<x, s, t, b, discrete>>, depth - 1)
    IN  IF A.r = Raise THEN A
        ELSE IF DA.r = Raise THEN DA
        ELSE IF A.r # None /\ DA.r # None
        THEN Ret(Sub(Mul(A.r, R(n)), DA.r),
                 Blog_call(DA.h, <<"IA = n A - DA">> \o Blog_IA(x, s, t, 1) \o <<n>>
                                   \o Blog_A(x, s, t, 0, 1, 1, 0)
                                   \o Blog_DA(x, s, t, 1),
                           depth, "varying insurance identity"))
        ELSE Fall(DA.h)

\* (2) backward recursion
_IA_x_backward(h, x, s, t, b, discrete, depth) ==
    LET A == Call("_A_x", h, <<x, s, 1, 0, b, discrete, 0, 1>>, depth - 1)
        IA == Call("_IA_x", A.h, <<x, s + 1, add_term(t, -1), b, TRUE>>, depth - 1)
        p == Call("_p_x", IA.h, <<x, s, 1>>, Collateral(depth))
    IN  IF A.r = Raise THEN A
        ELSE IF IA.r = Raise THEN IA
        ELSE IF p.r = Raise THEN p
        ELSE IF A.r # None /\ IA.r # None /\ p.r # None
        THEN Ret(Add(A.r, Mul(Mul(p.r, interest_v), IA.r)),
                 Blog_call(p.h, <<"IA = A + p * v(t=) * IA">> \o Blog_IA(x, s, t, 1)
                                  \o Blog_A(x, s, t, 0, 1, 1, 0) \o Blog_p(x, s, 1)
                                  \o <<t>> \o Blog_IA(x, s + 1, t - 1, 1),
                           depth, "backward recursion"))
        ELSE Ret(None, p.h)

_IA_x(h, x, s, t, b, discrete, depth) ==
    LET found == get_IA(x, s, t, b, discrete)
    IN  IF t = 0 THEN Ret(R(0), h)
        ELSE IF found # None THEN Ret(found, h)
        ELSE IF depth <= 0 THEN Ret(None, h)
        ELSE
        Then(IF t > 0 THEN _IA_x_identity(h, x, s, t, b, discrete, depth) ELSE Fall(h),
             LAMBDA h1 : _IA_x_backward(h1, x, s, t, b, discrete, depth))

\* (1) identity with term and the other varying insurance
_DA_x_identity(h, x, s, t, b, discrete, depth) ==
    LET A == Call("_A_x", h, <<x, s, t, 0, b, discrete, 0, 1>>, depth - 1)
        n == t + B01(discrete)
        IA == Call("_DA_x", A.h, <<x, s, t, b, discrete>>, depth - 1)
    IN  IF A.r = Raise THEN A
        ELSE IF IA.r = Raise THEN IA
        ELSE IF A.r # None /\ IA.r # None
        THEN Ret(Sub(Mul(A.r, R(n)), IA.r),
                 Blog_call(IA.h, <<"DA = n A - IA">> \o Blog_DA(x, s, t, 1) \o <<n>>
                                   \o Blog_A(x, s, t, 0, 1, 1, 0)
                                   \o Blog_IA(x, s, t, 1),
                           depth, "varying insurance identity"))
        ELSE Fall(IA.h)

\* (2) backward recursion
_DA_x_backward(h, x, s, t, b, discrete, depth) ==
    LET DA == Call("_IA_x", h, <<x, s + 1, add_term(t, -1), b, TRUE>>, depth - 1)
        p == Call("_p_x", DA.h, <<x, s, 1>>, Collateral(depth))
    IN  IF DA.r = Raise THEN DA
        ELSE IF p.r = Raise THEN p
        ELSE IF DA.r # None /\ p.r # None
        THEN Ret(Mul(interest_v,
                     Add(Mul(Sub(R(1), p.r), R(t)), Mul(p.r, DA.r))),
                 Blog_call(p.h, <<"DA = v(t=) * t * q + p * DA">>
                                  \o Blog_DA(x, s, t, 1) \o <<t>>
                                  \o Blog_q(x, s, 1, 0) \o Blog_p(x, s, 1)
                                  \o Blog_DA(x, s + 1, t - 1, 1),
                           depth, "backward recursion"))
        ELSE Ret(None, p.h)

_DA_x(h, x, s, t, b, discrete, depth) ==
    LET found == get_DA(x, s, t, 1, discrete)
    IN  IF found # None THEN Ret(found, h)
        ELSE IF t = 0 THEN Ret(R(0), h)
        ELSE IF depth <= 0 THEN Ret(None, h)
        ELSE IF t < 0 THEN Ret(None, h)
        ELSE
        Then(_DA_x_identity(h, x, s, t, b, discrete, depth), LAMBDA h1 :
        _DA_x_backward(h1, x, s, t, b, discrete, depth))

(***************************************************************************)
(* Insurance A_x:t                                                         *)
(***************************************************************************)
\* (1) deferred insurance, u > 0.  The test of (1a) reads the name p, which
\* is not bound on this path: Python evaluates "A is not None" first and
\* raises NameError as soon as it is true.
_A_x_deferred(h, x, s, t, u, b, discrete, endowment, moment, depth) ==
    LET A == Call("_A_x", h, <<x, s + 1, t, u - 1, b, discrete, endowment, moment>>, depth - 1)
        E == Call("_E_x", A.h, <<x, s, 1, 1, moment>>, depth - 1)
        A2 == Call("_A_x", E.h,
                   <<x, s - 1, t, u + 1, b, discrete, endowment, moment>>, depth - 1)
        E2 == Call("_E_x", A2.h, <<x, s - 1, 1, 1, moment>>, depth - 1)
    IN  IF A.r = Raise THEN A
        ELSE IF E.r = Raise THEN E
        ELSE IF A.r # None THEN Ret(Raise, E.h)
        ELSE IF A2.r = Raise THEN A2
        ELSE IF E2.r = Raise THEN E2
        ELSE IF A2.r # None /\ E2.r # None
        THEN Ret(Div(A2.r, E2.r),
                 Blog_call(E2.h, <<"A = A / E">>
                                   \o Blog_A(x, s, t, u, b, moment, 0)
                                   \o Blog_A(x, s - 1, t, u + 1, 1, moment, 0)
                                   \o Blog_E(x, s - 1, 1, 1, moment),
                           depth, "forward recursion"))
        ELSE Ret(None, E2.h)

\* (2a) endowment insurance = term insurance + pure endowment
_A_x_term_plus_pure(h, x, s, t, b, discrete, endowment, moment, depth) ==
    LET A == Call("_A_x", h, <<x, s, t, 0, b, discrete, 0, moment>>, Collateral(depth))
        E_x == Call("_E_x", A.h, <<x, s, t, endowment, moment>>, Collateral(depth))
    IN  IF A.r = Raise THEN A
        ELSE IF E_x.r = Raise THEN E_x
        ELSE IF A.r # None /\ E_x.r # None
        THEN Ret(Add(A.r, E_x.r),
                 Blog_call(E_x.h, <<"A = A + E">>
                                    \o Blog_A(x, s, t, 0, 1, moment, endowment)
                                    \o Blog_A(x, s, t, 0, 1, moment, 0)
                                    \o Blog_E(x, s, t, endowment, moment),
                           depth, "term plus pure endowment"))
        ELSE Fall(E_x.h)

\* (2b) term insurance = endowment insurance - pure endowment
_A_x_endowment_minus_pure(h, x, s, t, b, discrete, moment, depth) ==
    LET A == Call("_A_x", h, <<x, s, t, 0, b, discrete, b, moment>>, Collateral(depth))
        E_x == Call("_E_x", A.h, <<x, s, t, b, moment>>, Collateral(depth))
    IN  IF A.r = Raise THEN A
        ELSE IF E_x.r = Raise THEN E_x
        ELSE IF A.r # None /\ E_x.r # None
        THEN Ret(Sub(A.r, E_x.r),
                 Blog_call(E_x.h, <<"A = A - E">>
                                    \o Blog_A(x, s, t, 0, 1, moment, 0)
                                    \o Blog_A(x, s, t, 0, 1, moment, b)
                                    \o Blog_E(x, s, t, b, moment),
                           depth, "endowment insurance - pure"))
        ELSE Fall(E_x.h)

\* (3) discrete one-year insurance, t == 1.  Building the message of (3b)
\* evaluates "v" * Blog.m(moment), a str times a str: TypeError.
_A_x_one_year(h, x, s, b, endowment, moment, depth) ==
    LET p == Call("_p_x", h, <<x, s, 1>>, 1)
    IN  IF endowment = b
        THEN Ret(Pow(Mul(interest_v, R(endowment)), moment),
                 Blog_call(h, <<"A = v^ * ">> \o Blog_A(x, s, 1, 0, 1, moment, endowment)
                                \o Blog_m(moment) \o Blog_m_endow(moment, endowment),
                           depth, "one-year endowment insurance"))
        ELSE IF p.r = Raise THEN p
        ELSE IF p.r # None THEN Ret(Raise, p.h)
        ELSE Fall(p.h)

\* (4) backward recursion
_A_x_backward(h, x, s, t, b, discrete, endowment, moment, depth) ==
    LET A == Call("_A_x", h,
                  <<x, s + 1, add_term(t, -1), 0, b, discrete, endowment, moment>>, depth - 1)
        p == Call("_p_x", A.h, <<x, s, 1>>, Collateral(depth))
    IN  IF A.r = Raise THEN A
        ELSE IF p.r = Raise THEN p
        ELSE IF A.r # None /\ p.r # None
        THEN Ret(Mul(Pow(interest_v_t(1), moment),
                     Add(Mul(Sub(R(1), p.r), Pow(R(b), moment)), Mul(p.r, A.r))),
                 Blog_call(p.h, <<"A = v^ * [ q * b^ + p * A ]">>
                                  \o Blog_A(x, s, t, 0, b, moment, 0)
                                  \o Blog_m(moment) \o Blog_q(x, s, 1, 0)
                                  \o Blog_p(x, s, 1)
                                  \o Blog_A(x, s + 1, t - 1, 0, b, moment, 0),
                           depth, "backward recursion"))
        ELSE Fall(p.h)

\* (5) forward recursion
_A_x_forward(h, x, s, t, u, b, discrete, endowment, moment, depth) ==
    LET A == Call("_A_x", h,
                  <<x, s - 1, add_term(t, 1), u, b, discrete, endowment, moment>>, depth - 1)
        p == Call("_p_x", A.h, <<x, s - 1, 1>>, Collateral(depth))
    IN  IF A.r = Raise THEN A
        ELSE IF p.r = Raise THEN p
        ELSE IF A.r # None /\ p.r # None
        THEN Ret(LET num == Div(A.r, Pow(interest_v_t(1), moment))
                 IN  IF num = Raise THEN Raise
                     ELSE Div(Sub(num, Mul(Sub(R(1), p.r), Pow(R(b), moment))),
                              p.r),
                 Blog_call(p.h, <<"A = [ A /v^ - q * b^ ] / p">>
                                  \o Blog_A(x, s, t, 0, b, moment, 0)
                                  \o Blog_A(x, s - 1, t + 1, 0, b, moment, 0)
                                  \o Blog_m(moment) \o Blog_q(x, s, 1, 0)
                                  \o Blog_p(x, s, 1),
                           depth, "forward recursion"))
        ELSE Ret(None, p.h)

_A_x(h, x, s, t, u, b, discrete, endowment, moment, depth) ==
    LET found == get_A(x, s, u, t, b, moment, endowment, discrete)
    IN  IF endowment = b /\ t = 1 /\ discrete
        THEN Ret(Pow(Mul(interest_v_t(1), R(endowment)), moment), h)
        ELSE IF found # None THEN Ret(found, h)
        ELSE IF depth <= 0 THEN Ret(None, h)
        ELSE IF u > 0
        THEN _A_x_deferred(h, x, s, t, u, b, discrete, endowment, moment, depth)
        ELSE
        Then(IF endowment > 0
             THEN _A_x_term_plus_pure(h, x, s, t, b, discrete, endowment, moment, depth)
             ELSE _A_x_endowment_minus_pure(h, x, s, t, b, discrete, moment, depth),
             LAMBDA h1 :
        IF ~discrete THEN Ret(None, h1)
        ELSE
        Then(IF t = 1 THEN _A_x_one_year(h1, x, s, b, endowment, moment, depth)
             ELSE Fall(h1), LAMBDA h2 :
        Then(_A_x_backward(h2, x, s, t, b, discrete, endowment, moment, depth),
             LAMBDA h3 :
        _A_x_forward(h3, x, s, t, u, b, discrete, endowment, moment, depth))))

(***************************************************************************)
(* Annuity a_x:t                                                           *)
(***************************************************************************)
\* (1) deferred annuity, u > 0: (1a) backward, then (1b) forward
_a_x_deferred(h, x, s, t, u, b, discrete, variance, depth) ==
    LET found == Call("_a_x", h, <<x, s + 1, t, u - 1, b, discrete, variance>>, depth - 1)
        E == Call("_E_x", found.h, <<x, s, 1, 1, 1>>, depth - 1)
        found2 == Call("_a_x", E.h, <<x, s - 1, t, u + 1, b, discrete, FALSE>>, depth - 1)
        E2 == Call("_E_x", found2.h, <<x, s - 1, 1, 1, 1>>, depth - 1)
    IN  IF found.r = Raise THEN found
        ELSE IF E.r = Raise THEN E
        ELSE IF found.r # None /\ E.r # None
        THEN Ret(Mul(E.r, found.r),
                 Blog_call(E.h, <<"a = a / E">> \o Blog_a(x, s, t, u, 1, FALSE)
                                  \o Blog_a(x, s + 1, t, u - 1, 1, FALSE)
                                  \o Blog_E(x, s, 1, 1, 1),
                           depth, "backward deferred annuity"))
        ELSE IF found2.r = Raise THEN found2
        ELSE IF E2.r = Raise THEN E2
        ELSE IF found2.r # None /\ E2.r # None
        THEN Ret(Div(found2.r, E2.r),
                 Blog_call(E2.h, <<"a = a / E">> \o Blog_a(x, s, t, u, 1, FALSE)
                                   \o Blog_a(x, s - 1, t, u + 1, 1, FALSE)
                                   \o Blog_E(x, s - 1, 1, 1, 1),
                           depth, "forward deferred annuity"))
        ELSE Ret(None, E2.h)

\* (variant: the payment b due at once is left out)
annuity_backward_no_payment(b, E, found) == Mul(E, found)

annuity_backward(b, E, found) == Add(R(b), Mul(E, found))

\* (2) temporary and whole life annuity: (2a) backward, then (2b) forward
_a_x_recursion(h, x, s, t, u, b, discrete, variance, depth) ==
    LET found == Call("_a_x", h,
                      <<x, s + 1, add_term(t, -1), u, b, discrete, variance>>, depth - 1)
        E == Call("_E_x", found.h, <<x, s, 1, 1, 1>>, depth - 1)
        found2 == Call("_a_x", E.h,
                       <<x, s - 1, add_term(t, 1), u, b, discrete, FALSE>>, depth - 1)
        E2 == Call("_E_x", found2.h, <<x, s - 1, 1, 1, 1>>, depth - 1)
    IN  IF found.r = Raise THEN found
        ELSE IF E.r = Raise THEN E
        ELSE IF found.r # None /\ E.r # None
        THEN Ret(annuity_backward(b, E.r, found.r),
                 Blog_call(E.h, <<"a = 1 + E * a">> \o Blog_a(x, s, t, 0, 1, FALSE)
                                  \o Blog_E(x, s, 1, 1, 1)
                                  \o Blog_a(x, s + 1, t - 1, 0, 1, FALSE),
                           depth, "backward recursion"))
        ELSE IF found2.r = Raise THEN found2
        ELSE IF E2.r = Raise THEN E2
        ELSE IF found2.r # None /\ E2.r # None
        THEN Ret(Div(Sub(found2.r, R(b)), E2.r),
                 Blog_call(E2.h, <<"a = [ a - 1 ] / E">>
                                   \o Blog_a(x, s, t, 0, 1, FALSE)
                                   \o Blog_a(x, s - 1, WHOLE, 0, 1, FALSE)
                                   \o Blog_E(x, s - 1, 1, 1, 1),
                           depth, "forward recursion"))
        ELSE Ret(None, E2.h)

_a_x(h, x, s, t, u, b, discrete, variance, depth) ==
    LET found == get_a(x, s, u, t, b, variance, discrete)
    IN  IF t = 1 /\ u = 0 /\ discrete
        THEN Ret(R(b), Blog_call(h, <<"a = 1">> \o Blog_a(x, s, 1, 0, 1, FALSE),
                                 depth, "one-year discrete annuity"))
        ELSE IF t = 0 THEN Ret(R(0), h)
        ELSE IF found # None THEN Ret(found, h)
        ELSE IF depth <= 0 THEN Ret(None, h)
        ELSE IF variance THEN Ret(None, h)
        ELSE IF u > 0
        THEN _a_x_deferred(h, x, s, t, u, b, discrete, variance, depth)
        ELSE _a_x_recursion(h, x, s, t, u, b, discrete, variance, depth)

(***************************************************************************)
(* Public computed methods.  Each starts a new tracer, runs its resolver   *)
(* at maxdepth and yields [r |-> what it returns, blog |-> self.blog as    *)
(* the call leaves it, out |-> what it printed].  Where the method ends    *)
(* by calling super(), r is Super and the collaborator's answer completes  *)
(* the call (Finish).                                                      *)
(***************************************************************************)
Blog_init(title) ==
    [title |-> title, levels |-> maxdepth,
     _history |-> <<>>, _depths |-> <<>>, _rules |-> <<>>]

Lists(b) == [_history |-> b._history, _depths |-> b._depths, _rules |-> b._rules]

WithLists(b, h) ==
    [title |-> b.title, levels |-> b.levels,
     _history |-> h._history, _depths |-> h._depths, _rules |-> h._rules]

Max(a, b) == IF a > b THEN a ELSE b

\* (variant: the rendering does not consult the verbosity switch)
Blog_str_always(b) ==
    IF Len(b._history) = 0
    THEN <<>>
    ELSE <<b.title>> \o
         [j \in 1..Len(b._history) |->
             <<3 + Max(b.levels - Abs(b._depths[j]), 0), b._history[j], b._rules[j]>>]

\* Blog.__str__: one line (indent, message, rule) per recorded step
Blog_str(b) ==
    IF ~verbose \/ Len(b._history) = 0
    THEN <<>>
    ELSE <<b.title>> \o
         [j \in 1..Len(b._history) |->
             <<3 + Max(b.levels - Abs(b._depths[j]), 0), b._history[j], b._rules[j]>>]

Pub(r, b, printed) == [r |-> r, blog |-> b, out |-> printed]

\* "if X is not None: print(self.blog); return X", falling out with None
PrintIfFound(b0, c) ==
    LET b == WithLists(b0, c.h)
    IN  IF c.r = Raise \/ c.r = None THEN Pub(c.r, b, <<>>)
        ELSE Pub(c.r, b, Blog_str(b))

\* "X = super().method(...); if X is not None: print(self.blog); return X":
\* the method up to its call of super(), with the text it prints if the
\* collaborator returns a value
PrintIfSuper(b) == Pub(Super, b, Blog_str(b))

\* the collaborator's answer sup (None, or Collab for a value) completes a
\* call that was delegated to super()
Finish(res, sup) ==
    IF res.r # Super THEN res
    ELSE IF sup = None THEN Pub(None, res.blog, <<>>)
    ELSE Pub(sup, res.blog, res.out)

q_x(x, s, t, u) ==
    LET b0 == Blog_init(<<"Mortality">> \o Blog_q(x, s, t, u))
    IN  PrintIfFound(b0, Call("_q_x", Lists(b0), <<x, s, t, u>>, maxdepth))

\* (variant: the call goes on with the tracer the previous call left)
p_x_stale_tracer(x, s, t) ==
    LET b0 == WithLists(Blog_init(<<"Survival">> \o Blog_p(x, s, t)), Lists(blog))
    IN  PrintIfFound(b0, Call("_p_x", Lists(b0), <<x, s, t>>, maxdepth))

p_x(x, s, t) ==
    LET b0 == Blog_init(<<"Survival">> \o Blog_p(x, s, t))
    IN  PrintIfFound(b0, Call("_p_x", Lists(b0), <<x, s, t>>, maxdepth))

e_x(x, s, t, curtate, moment) ==
    LET b0 == Blog_init(<<"Lifetime">> \o Blog_e(x, s, t, curtate, moment))
    IN  PrintIfFound(b0, Call("_e_x", Lists(b0), <<x, s, t, curtate, moment>>, maxdepth))

E_x(x, s, t, endowment, moment) ==
    LET b0 == Blog_init(<<"Pure Endowment">> \o Blog_E(x, s, t, endowment, moment))
        found == get_E(x, s, t, endowment, moment)
        t_p_x == Call("p_x", NewBlog, <<x, s, t>>, maxdepth)
    IN  IF moment = VARIANCE
        THEN IF found # None THEN Pub(found, b0, <<>>)
             ELSE IF ~IsVal(t_p_x.r) THEN Pub(Raise, t_p_x.blog, t_p_x.out)
             ELSE Pub(Mul(Mul(Pow(Mul(R(endowment), interest_v_t(t)), 2), t_p_x.r),
                          Sub(R(1), t_p_x.r)),
                      t_p_x.blog, t_p_x.out)
        ELSE PrintIfFound(b0, Call("_E_x", Lists(b0), <<x, s, t, endowment, moment>>, maxdepth))

increasing_insurance(x, s, t, b, discrete) ==
    LET b0 == Blog_init(<<"Increasing Insurance">> \o Blog_IA(x, s, t, b))
        c == PrintIfFound(b0, Call("_IA_x", Lists(b0), <<x, s, t, b, discrete>>, maxdepth))
    IN  IF c.r # None THEN c ELSE PrintIfSuper(c.blog)

decreasing_insurance(x, s, t, b, discrete) ==
    LET b0 == Blog_init(<<"Increasing Insurance">> \o Blog_DA(x, s, t, b))
        c == PrintIfFound(b0, Call("_DA_x", Lists(b0), <<x, s, t, b, discrete>>, maxdepth))
    IN  IF t = 0 THEN Pub(R(0), b0, <<>>)
        ELSE IF c.r # None THEN c
        ELSE PrintIfSuper(c.blog)

\* insurance_twin and annuity_twin of the collaborator: the discrete forms;
\* the continuous forms use the force of interest and stay opaque
Twin_insurance(a, discrete) == IF discrete THEN insurance_twin(a) ELSE Collab
Twin_annuity(A, discrete) == IF discrete THEN annuity_twin(A) ELSE Collab

\* (variant: the twin step is tried before the resolver of the own kind)
whole_life_insurance_twin_first(x, s, b, discrete, moment) ==
    LET b0 == Blog_init(<<"Whole Life Insurance">>
                        \o Blog_A(x, s, WHOLE, 0, b, moment, 0))
        a == Call("_a_x", Lists(b0), <<x, s, WHOLE, 0, b, discrete, FALSE>>, maxdepth)
        b1 == WithLists(b0, Blog_call(a.h, <<"A_x = 1 - d * a_x">>, maxdepth,
                                      "annuity twin"))
        c == PrintIfFound(b0, Call("_A_x", a.h,
                                   <<x, s, WHOLE, 0, b, discrete, 0, moment>>, maxdepth))
    IN  IF moment = 1 /\ interest[1] > 0 /\ IsVal(a.r)
        THEN Pub(Twin_insurance(a.r, discrete), b1, Blog_str(b1))
        ELSE IF c.r # None THEN c
        ELSE PrintIfSuper(c.blog)

whole_life_insurance(x, s, b, discrete, moment) ==
    LET b0 == Blog_init(<<"Whole Life Insurance">>
                        \o Blog_A(x, s, WHOLE, 0, b, moment, 0))
        c == PrintIfFound(b0, Call("_A_x", Lists(b0),
                                   <<x, s, WHOLE, 0, b, discrete, 0, moment>>, maxdepth))
        a == Call("_a_x", Lists(c.blog), <<x, s, WHOLE, 0, b, discrete, FALSE>>, maxdepth)
        b1 == WithLists(b0, Blog_call(a.h, <<"A_x = 1 - d * a_x">>, maxdepth,
                                      "annuity twin"))
    IN  IF c.r # None THEN c
        ELSE IF moment = 1 /\ interest[1] > 0
        THEN IF a.r = Raise THEN Pub(Raise, WithLists(b0, a.h), <<>>)
             ELSE IF a.r # None
             THEN Pub(Twin_insurance(a.r, discrete), b1, Blog_str(b1))
             ELSE PrintIfSuper(WithLists(b0, a.h))
        ELSE PrintIfSuper(c.blog)

term_insurance(x, s, t, b, moment, discrete) ==
    LET b0 == Blog_init(<<"Term Insurance">> \o Blog_A(x, s, t, 0, b, moment, 0))
        c == PrintIfFound(b0, Call("_A_x", Lists(b0),
                                   <<x, s, t, 0, b, discrete, 0, moment>>, maxdepth))
    IN  IF c.r # None THEN c ELSE PrintIfSuper(c.blog)

deferred_insurance(x, s, b, u, t, moment, discrete) ==
    LET b0 == Blog_init(<<"Deferred Insurance">> \o Blog_A(x, s, t, u, b, moment, 0))
        A == get_A(x, s, u, t, b, moment, 0, discrete)
    IN  IF A # None THEN Pub(A, b0, Blog_str(b0))
        ELSE PrintIfSuper(b0)

\* the twin step passes _a_x a keyword it does not take (moment): TypeError
endowment_insurance(x, s, t, b, endowment, moment, discrete) ==
    LET b0 == Blog_init(<<"Endowment Insurance">>
                        \o Blog_A(x, s, t, 0, b, moment, endowment))
        endow == IF endowment < 0 THEN b ELSE endowment
        c == PrintIfFound(b0, Call("_A_x", Lists(b0),
                                   <<x, s, t, 0, b, discrete, endow, moment>>, maxdepth))
    IN  IF t < 0 THEN Pub(Raise, b0, <<>>)
        ELSE IF c.r # None THEN c
        ELSE IF moment = 1 /\ endow = b /\ interest[1] > 0
        THEN Pub(Raise, c.blog, <<>>)
        ELSE PrintIfSuper(c.blog)

\* (variant: the twin step is left out)
whole_life_annuity_no_twin(x, s, b, variance, discrete) ==
    LET b0 == Blog_init(<<"Whole Life Annuity">> \o Blog_a(x, s, WHOLE, 0, b, FALSE))
        c == PrintIfFound(b0, Call("_a_x", Lists(b0),
                                   <<x, s, WHOLE, 0, b, discrete, variance>>, maxdepth))
    IN  IF c.r # None THEN c ELSE PrintIfSuper(c.blog)

whole_life_annuity(x, s, b, variance, discrete) ==
    LET b0 == Blog_init(<<"Whole Life Annuity">> \o Blog_a(x, s, WHOLE, 0, b, FALSE))
        c == PrintIfFound(b0, Call("_a_x", Lists(b0),
                                   <<x, s, WHOLE, 0, b, discrete, variance>>, maxdepth))
        A == Call("_A_x", Lists(c.blog), <<x, s, WHOLE, 0, b, discrete, 0, 1>>, maxdepth)
        b1 == WithLists(b0, Blog_call(A.h, <<"a_x = (1-A_x) / d">>, maxdepth,
                                      "insurance twin"))
    IN  IF c.r # None THEN c
        ELSE IF ~variance /\ interest[1] > 0
        THEN IF A.r = Raise THEN Pub(Raise, WithLists(b0, A.h), <<>>)
             ELSE IF A.r # None
             THEN Pub(Twin_annuity(A.r, discrete), b1, Blog_str(b1))
             ELSE PrintIfSuper(WithLists(b0, A.h))
        ELSE PrintIfSuper(c.blog)

temporary_annuity(x, s, t, b, variance, discrete) ==
    LET b0 == Blog_init(<<"Temporary Annuity">> \o Blog_a(x, s, t, 0, b, variance))
        c == PrintIfFound(b0, Call("_a_x", Lists(b0),
                                   <<x, s, t, 0, b, discrete, variance>>, maxdepth))
        A == Call("_A_x", Lists(c.blog), <<x, s, t, 0, b, discrete, b, 1>>, maxdepth)
        b1 == WithLists(b0, Blog_call(A.h, <<"a = [ 1 - A ] / d(t=)">>
                                             \o Blog_a(x, s, t, 0, 1, FALSE)
                                             \o Blog_A(x, s, t, 0, 1, 1, 0) \o <<t>>,
                                      maxdepth, "annuity twin"))
    IN  IF c.r # None THEN c
        ELSE IF ~variance /\ interest[1] > 0
        THEN IF A.r = Raise THEN Pub(Raise, WithLists(b0, A.h), <<>>)
             ELSE IF A.r # None
             THEN Pub(Twin_annuity(A.r, discrete), b1, Blog_str(b1))
             ELSE PrintIfSuper(WithLists(b0, A.h))
        ELSE PrintIfSuper(c.blog)

deferred_annuity(x, s, t, u, b, discrete) ==
    LET b0 == Blog_init(<<"Deferred Annuity">> \o Blog_a(x, s, t, u, b, FALSE))
        c == PrintIfFound(b0, Call("_a_x", Lists(b0),
                                   <<x, s, t, u, b, discrete, FALSE>>, maxdepth))
        a == Call("_a_x", Lists(c.blog),
                  <<x, s, add_term(u, t), 0, b, discrete, FALSE>>, maxdepth)
        a_t == Call("_a_x", a.h, <<x, s, u, 0, b, discrete, FALSE>>, maxdepth)
        b2 == WithLists(b0, a_t.h)
    IN  IF c.r # None THEN c
        ELSE IF a.r = Raise THEN Pub(Raise, WithLists(b0, a.h), <<>>)
        ELSE IF a_t.r = Raise THEN Pub(Raise, b2, <<>>)
        ELSE IF a.r # None /\ a_t.r # None
        THEN Pub(Sub(a.r, a_t.r), b2, Blog_str(b2))
        ELSE Pub(Super, b2, <<>>)

Call(f, h, a, depth) ==
    CASE f = "_q_x" -> _q_x(h, a[1], a[2], a[3], a[4], depth)
      [] f = "_p_x" -> _p_x(h, a[1], a[2], a[3], depth)
      [] f = "_e_x" -> _e_x(h, a[1], a[2], a[3], a[4], a[5], depth)
      [] f = "_E_x" -> _E_x(h, a[1], a[2], a[3], a[4], a[5], depth)
      [] f = "_IA_x" -> _IA_x(h, a[1], a[2], a[3], a[4], a[5], depth)
      [] f = "_DA_x" -> _DA_x(h, a[1], a[2], a[3], a[4], a[5], depth)
      [] f = "_A_x" -> _A_x(h, a[1], a[2], a[3], a[4], a[5], a[6], a[7], a[8], depth)
      [] f = "_a_x" -> _a_x(h, a[1], a[2], a[3], a[4], a[5], a[6], a[7], depth)
      [] f = "q_x" -> q_x(a[1], a[2], a[3], a[4])
      [] f = "p_x" -> p_x(a[1], a[2], a[3])
      [] f = "e_x" -> e_x(a[1], a[2], a[3], a[4], a[5])
      [] f = "E_x" -> E_x(a[1], a[2], a[3], a[4], a[5])
      [] f = "increasing_insurance" ->
           increasing_insurance(a[1], a[2], a[3], a[4], a[5])
      [] f = "decreasing_insurance" ->
           decreasing_insurance(a[1], a[2], a[3], a[4], a[5])
      [] f = "whole_life_insurance" ->
           whole_life_insurance(a[1], a[2], a[3], a[4], a[5])
      [] f = "term_insurance" -> term_insurance(a[1], a[2], a[3], a[4], a[5], a[6])
      [] f = "deferred_insurance" ->
           deferred_insurance(a[1], a[2], a[3], a[4], a[5], a[6], a[7])
      [] f = "endowment_insurance" ->
           endowment_insurance(a[1], a[2], a[3], a[4], a[5], a[6], a[7])
      [] f = "whole_life_annuity" ->
           whole_life_annuity(a[1], a[2], a[3], a[4], a[5])
      [] f = "temporary_annuity" ->
           temporary_annuity(a[1], a[2], a[3], a[4], a[5], a[6])
      [] f = "deferred_annuity" ->
           deferred_annuity(a[1], a[2], a[3], a[4], a[5], a[6])

\* a public method called from outside (it builds its own tracer and runs
\* at self.maxdepth)
Invoke(op, a) == Call(op, NewBlog, a, maxdepth)

(***************************************************************************)
(* The state machine.  A session constructs a Recursion (interest rate and *)
(* depth budget chosen at construction), stores up to MaxSets facts with   *)
(* the chained setters and then queries it; a query may be repeated.       *)
(* last is the latest operation with its arguments and outcome, prev the   *)
(* one before it.                                                          *)
(***************************************************************************)
\* parent: what the collaborator's closed form (the method of the parent
\* class reached by super()) answers in this session: None, or a value
Sup == {None, Collab}

Op(op, args, r) == [op |-> op, args |-> args, r |-> r]

NoOp == Op("init", <<>>, None)

\* what a query remembers of the operation before it: that operation, and
\* the tracer and printed text it left
Seen(o) == [op |-> o.op, args |-> o.args, r |-> o.r, blog |-> blog, out |-> out]

NoPrev == [op |-> "init", args |-> <<>>, r |-> None, blog |-> <<>>, out |-> <<>>]

\* no method of the engine is on the call stack
NoFrame == [op |-> "", args |-> <<>>, f |-> "", a |-> <<>>, depth |-> 0, nest |-> 0]

\* no second Recursion object has been constructed
NoObject == [name |-> "", db |-> <<>>, maxdepth |-> 0, interest |-> None, blog |-> <<>>]

\* a chained setter, while fewer than n facts were set in the session
SetterWithin(n, op, args, res) ==
    /\ nsets < n
    /\ ncalls = 0
    /\ db' = res.db
    /\ last' = Op(op, args, IF res.exc THEN Raise ELSE None)
    /\ prev' = NoPrev
    /\ nsets' = nsets + 1
    /\ UNCHANGED <<blog, out, interest, maxdepth, parent, ncalls, verbose, frame, peer>>

Setter(op, args, res) == SetterWithin(MaxSets, op, args, res)

Getter(op, args, r) ==
    /\ ncalls < MaxCalls
    /\ last' = Op(op, args, r)
    /\ prev' = Seen(last)
    /\ ncalls' = ncalls + 1
    /\ UNCHANGED <<db, blog, out, interest, maxdepth, parent, nsets, verbose, frame, peer>>

\* a query is taken while the session may still call (tested before the
\* method is evaluated)
CanCall == ncalls < MaxCalls

Public(op, args, res) ==
    /\ last' = Op(op, args, res.r)
    /\ prev' = Seen(last)
    /\ blog' = res.blog
    /\ out' = res.out
    /\ ncalls' = ncalls + 1
    /\ UNCHANGED <<db, interest, maxdepth, parent, nsets, verbose, frame, peer>>

Do_set_q(val, x, s, t, u) == Setter("set_q", <<val, x, s, t, u>>, set_q(val, x, s, t, u))
Do_set_p(val, x, s, t) == Setter("set_p", <<val, x, s, t>>, set_p(val, x, s, t))
Do_set_e(val, x, s, t, curtate, moment) ==
    Setter("set_e", <<val, x, s, t, curtate, moment>>, set_e(val, x, s, t, curtate, moment))
Do_set_E(val, x, s, t, endowment, moment) ==
    Setter("set_E", <<val, x, s, t, endowment, moment>>,
           set_E(val, x, s, t, endowment, moment))
Do_set_IA(val, x, s, t, b, discrete) ==
    Setter("set_IA", <<val, x, s, t, b, discrete>>, set_IA(val, x, s, t, b, discrete))
Do_set_DA(val, x, s, t, b, discrete) ==
    Setter("set_DA", <<val, x, s, t, b, discrete>>, set_DA(val, x, s, t, b, discrete))
Do_set_A(val, x, s, t, u, b, moment, endowment, discrete) ==
    Setter("set_A", <<val, x, s, t, u, b, moment, endowment, discrete>>,
           set_A(val, x, s, t, u, b, moment, endowment, discrete))
Do_set_a(val, x, s, t, u, b, variance, discrete) ==
    Setter("set_a", <<val, x, s, t, u, b, variance, discrete>>,
           set_a(val, x, s, t, u, b, variance, discrete))

\* (variant: the lookup is written with setdefault, which inserts the key)
Do_get_q_setdefault(x, s, t, u) ==
    /\ ncalls < MaxCalls
    /\ last' = Op("get_q", <<x, s, t, u>>, get_q(x, s, t, u))
    /\ prev' = Seen(last)
    /\ ncalls' = ncalls + 1
    /\ db' = IF db_key_q(x + s, t, u) \in DOMAIN db THEN db
             ELSE db_put(db_key_q(x + s, t, u), R(0))
    /\ UNCHANGED <<blog, out, interest, maxdepth, parent, nsets, verbose, frame, peer>>

Do_get_q(x, s, t, u) == Getter("get_q", <<x, s, t, u>>, get_q(x, s, t, u))
Do_get_p(x, s, t) == Getter("get_p", <<x, s, t>>, get_p(x, s, t))
Do_get_e(x, s, t, curtate, moment) ==
    Getter("get_e", <<x, s, t, curtate, moment>>, get_e(x, s, t, curtate, moment))
Do_get_E(x, s, t, endowment, moment) ==
    Getter("get_E", <<x, s, t, endowment, moment>>, get_E(x, s, t, endowment, moment))
Do_get_IA(x, s, t, b, discrete) ==
    Getter("get_IA", <<x, s, t, b, discrete>>, get_IA(x, s, t, b, discrete))
Do_get_DA(x, s, t, b, discrete) ==
    Getter("get_DA", <<x, s, t, b, discrete>>, get_DA(x, s, t, b, discrete))
Do_get_A(x, s, t, u, b, moment, endowment, discrete) ==
    Getter("get_A", <<x, s, t, u, b, moment, endowment, discrete>>,
           get_A(x, s, u, t, b, moment, endowment, discrete))
Do_get_a(x, s, t, u, b, variance, discrete) ==
    Getter("get_a", <<x, s, t, u, b, variance, discrete>>,
           get_a(x, s, u, t, b, variance, discrete))

Do_q_x(x, s, t, u) ==
    CanCall /\ \E res \in {Invoke("q_x", <<x, s, t, u>>)} : Public("q_x", <<x, s, t, u>>, res)
\* (variant: a derived survival probability is memoised in the store)
Do_p_x_memo(x, s, t) ==
    CanCall /\ \E res \in {Invoke("p_x", <<x, s, t>>)} :
        /\ last' = Op("p_x", <<x, s, t>>, res.r)
        /\ prev' = Seen(last)
        /\ blog' = res.blog
        /\ out' = res.out
        /\ ncalls' = ncalls + 1
        /\ db' = IF IsVal(res.r) THEN db_put(db_key_p(x + s, t), res.r) ELSE db
        /\ UNCHANGED <<interest, maxdepth, parent, nsets, verbose, frame, peer>>

Do_p_x(x, s, t) ==
    CanCall /\ \E res \in {Invoke("p_x", <<x, s, t>>)} : Public("p_x", <<x, s, t>>, res)
Do_e_x(x, s, t, curtate, moment) ==
    CanCall /\ \E res \in {Invoke("e_x", <<x, s, t, curtate, moment>>)} :
        Public("e_x", <<x, s, t, curtate, moment>>, res)
Do_E_x(x, s, t, endowment, moment) ==
    CanCall /\ \E res \in {Invoke("E_x", <<x, s, t, endowment, moment>>)} :
        Public("E_x", <<x, s, t, endowment, moment>>, res)
Do_increasing_insurance(x, s, t, b, discrete) ==
    CanCall /\ \E res \in {Invoke("increasing_insurance", <<x, s, t, b, discrete>>)} :
        Public("increasing_insurance", <<x, s, t, b, discrete>>, Finish(res, parent))
Do_decreasing_insurance(x, s, t, b, discrete) ==
    CanCall /\ \E res \in {Invoke("decreasing_insurance", <<x, s, t, b, discrete>>)} :
        Public("decreasing_insurance", <<x, s, t, b, discrete>>, Finish(res, parent))
Do_whole_life_insurance(x, s, b, discrete, moment) ==
    CanCall /\ \E res \in {Invoke("whole_life_insurance", <<x, s, b, discrete, moment>>)} :
        Public("whole_life_insurance", <<x, s, b, discrete, moment>>, Finish(res, parent))
Do_term_insurance(x, s, t, b, moment, discrete) ==
    CanCall /\ \E res \in {Invoke("term_insurance", <<x, s, t, b, moment, discrete>>)} :
        Public("term_insurance", <<x, s, t, b, moment, discrete>>, Finish(res, parent))
Do_deferred_insurance(x, s, b, u, t, moment, discrete) ==
    CanCall /\ \E res \in {Invoke("deferred_insurance", <<x, s, b, u, t, moment, discrete>>)} :
        Public("deferred_insurance", <<x, s, b, u, t, moment, discrete>>, Finish(res, parent))
Do_endowment_insurance(x, s, t, b, endowment, moment, discrete) ==
    CanCall /\ \E res \in {Invoke("endowment_insurance", <<x, s, t, b, endowment, moment, discrete>>)} :
        Public("endowment_insurance", <<x, s, t, b, endowment, moment, discrete>>,
               Finish(res, parent))
Do_whole_life_annuity(x, s, b, variance, discrete) ==
    CanCall /\ \E res \in {Invoke("whole_life_annuity", <<x, s, b, variance, discrete>>)} :
        Public("whole_life_annuity", <<x, s, b, variance, discrete>>, Finish(res, parent))
Do_temporary_annuity(x, s, t, b, variance, discrete) ==
    CanCall /\ \E res \in {Invoke("temporary_annuity", <<x, s, t, b, variance, discrete>>)} :
        Public("temporary_annuity", <<x, s, t, b, variance, discrete>>, Finish(res, parent))
Do_deferred_annuity(x, s, t, u, b, discrete) ==
    CanCall /\ \E res \in {Invoke("deferred_annuity", <<x, s, t, u, b, discrete>>)} :
        Public("deferred_annuity", <<x, s, t, u, b, discrete>>, Finish(res, parent))

PublicOps ==
    {"q_x", "p_x", "e_x", "E_x", "increasing_insurance", "decreasing_insurance",
     "whole_life_insurance", "term_insurance", "deferred_insurance",
     "endowment_insurance", "whole_life_annuity", "temporary_annuity",
     "deferred_annuity"}

\* The client makes a second public call, of any method, on the object the
\* first call left.
FollowUp(op, args) ==
    /\ last.op \in PublicOps
    /\ prev.op \notin PublicOps
    /\ \E res \in {Invoke(op, args)} :
         LET fin == Finish(res, parent)
         IN  /\ last' = Op(op, args, fin.r)
             /\ prev' = Seen(last)
             /\ blog' = fin.blog
             /\ out' = fin.out
             /\ ncalls' = ncalls + 1
             /\ UNCHANGED <<db, interest, maxdepth, parent, nsets, verbose, frame, peer>>

\* The client repeats the public call it has just made, with the same
\* arguments.
Again ==
    /\ last.op \in PublicOps
    /\ prev.op \notin PublicOps
    /\ \E res \in {Invoke(last.op, last.args)} :
         LET fin == Finish(res, parent)
         IN  /\ last' = Op(last.op, last.args, fin.r)
             /\ prev' = Seen(last)
             /\ blog' = fin.blog
             /\ out' = fin.out
             /\ ncalls' = ncalls + 1
             /\ UNCHANGED <<db, interest, maxdepth, parent, nsets, verbose, frame, peer>>

(***************************************************************************)
(* A reference life table, used only to say when stored facts agree with   *)
(* one another: one-year mortality by attained age, everyone dead by age   *)
(* MaxAge + 1, and the standard definitions of each quantity.              *)
(***************************************************************************)
LifeTable_q(x) ==
    IF x >= MaxAge THEN R(1)
    ELSE IF x = 0 THEN <<1, 4>>
    ELSE <<1, 2>>

RECURSIVE LifeTable_p(_, _)
LifeTable_p(x, t) ==
    IF t <= 0 THEN R(1)
    ELSE Mul(Sub(R(1), LifeTable_q(x)), LifeTable_p(x + 1, t - 1))

Horizon(x, t) == IF t < 0 THEN Max(MaxAge + 1 - x, 0) ELSE t

RECURSIVE SumOver(_, _, _)
SumOver(F(_), lo, hi) == IF lo > hi THEN R(0) ELSE Add(F(lo), SumOver(F, lo + 1, hi))

Truth(key) ==
    LET kind == key[1]
        x == key[2]
        v == interest_v
        dies(k) == Mul(LifeTable_p(x, k), LifeTable_q(x + k))
    IN  CASE kind = "q" ->
               Sub(LifeTable_p(x, key[4]),
                   LifeTable_p(x, key[4] + Horizon(x + key[4], key[3])))
          [] kind = "p" -> LifeTable_p(x, key[3])
          [] kind = "e" ->
               IF key[4] /\ key[5] = 1
               THEN SumOver(LAMBDA k : LifeTable_p(x, k), 1, Horizon(x, key[3]))
               ELSE None
          [] kind = "E" ->
               IF key[4] >= 1
               THEN Mul(Pow(v, key[4] * key[3]), LifeTable_p(x, key[3]))
               ELSE None
          [] kind = "IA" ->
               IF key[4]
               THEN SumOver(LAMBDA k : Mul(R(k + 1), Mul(Pow(v, k + 1), dies(k))),
                            0, Horizon(x, key[3]) - 1)
               ELSE None
          [] kind = "DA" ->
               IF key[4] /\ key[3] >= 0
               THEN SumOver(LAMBDA k : Mul(R(key[3] - k), Mul(Pow(v, k + 1), dies(k))),
                            0, key[3] - 1)
               ELSE None
          [] kind = "A" ->
               LET u == key[3]
                   t == key[4]
                   m == key[5]
                   n == u + Horizon(x + u, t)
               IN  IF key[7] /\ m >= 1 /\ IsVal(key[6])
                   THEN Add(SumOver(LAMBDA k : Mul(Pow(v, m * (k + 1)), dies(k)),
                                    u, n - 1),
                            IF t < 0 THEN R(0)
                            ELSE Mul(Pow(key[6], m),
                                     Mul(Pow(v, m * n), LifeTable_p(x, n))))
                   ELSE None
          [] kind = "a" ->
               LET u == key[3]
                   n == u + Horizon(x + u, key[4])
               IN  IF key[6] /\ ~key[5]
                   THEN SumOver(LAMBDA k : Mul(Pow(v, k), LifeTable_p(x, k)), u, n - 1)
                   ELSE None

\* every stored fact is the life table's value for its key
Consistent == \A key \in DOMAIN db : db[key] = Truth(key)

(***************************************************************************)
(* Inputs.                                                                 *)
(***************************************************************************)
Ages == 0..MaxAge
Young == 0..(MaxAge - 1)
Rates == {R(0), R(1)}
Depths == 0..MaxDepth
Given(key) == {Truth(key), <<1, 2>>}
Values == {None, <<1, 2>>}

Init ==
    /\ db = <<>>
    /\ interest \in Rates
    /\ maxdepth \in Depths
    /\ parent \in Sup
    /\ verbose = TRUE
    /\ frame = NoFrame
    /\ peer = NoObject
    /\ blog = [title |-> <<>>, levels |-> maxdepth,
               _history |-> <<>>, _depths |-> <<>>, _rules |-> <<>>]
    /\ out = <<>>
    /\ last = NoOp
    /\ prev = NoPrev
    /\ nsets = 0
    /\ ncalls = 0

(***************************************************************************)
(* SpecStore: the fact store on its own, every set_ and get_ over amounts, *)
(* endowments, deferrals and removals (value None).                        *)
(***************************************************************************)
InitStore == Init /\ interest = R(0) /\ maxdepth = MaxDepth /\ parent = None

StoreAny ==
    \/ \E val \in Values \cup {<<3, 4>>}, x \in Young, s \in {0, 1}, t \in {1, 2},
          u \in {0, 1} : Do_set_q(val, x, s, t, u)
    \/ \E val \in Values \cup {<<3, 4>>}, x \in Young, t \in {0, 1, 2} :
           Do_set_p(val, x, 0, t)
    \/ \E val \in Values, x \in Young, t \in {WHOLE, 1}, curtate \in BOOLEAN :
           Do_set_e(val, x, 0, t, curtate, 1)
    \/ \E val \in Values, x \in Young, endowment \in {1, 2} :
           Do_set_E(val, x, 0, 1, endowment, 1)
    \/ \E val \in Values, x \in Young, b \in {1, 2} :
           Do_set_IA(val, x, 0, WHOLE, b, TRUE)
    \/ \E val \in Values, x \in Young, b \in {1, 2} :
           Do_set_DA(val, x, 0, 2, b, TRUE)
    \/ \E val \in Values, t \in {WHOLE, 2}, b \in {0, 1, 2}, endowment \in {-1, 0, 2} :
           Do_set_A(val, 0, 0, t, 0, b, 1, endowment, TRUE)
    \/ \E val \in Values, x \in Young, b \in {1, 2} :
           Do_set_a(val, x, 0, WHOLE, 0, b, FALSE, TRUE)

Fetch ==
    \/ \E x \in Young, s \in {0, 1}, t \in {1, 2}, u \in {0, 1} : Do_get_q(x, s, t, u)
    \/ \E x \in Young, t \in {0, 1, 2} : Do_get_p(x, 0, t)
    \/ \E x \in Young, t \in {WHOLE, 1}, curtate \in BOOLEAN : Do_get_e(x, 0, t, curtate, 1)
    \/ \E x \in Young, endowment \in {1, 2} : Do_get_E(x, 0, 1, endowment, 1)
    \/ \E x \in Young, b \in {1, 2} : Do_get_IA(x, 0, WHOLE, b, TRUE)
    \/ \E x \in Young, b \in {1, 2} : Do_get_DA(x, 0, 2, b, TRUE)
    \/ \E t \in {WHOLE, 2}, b \in {0, 1, 2}, endowment \in {-1, 0, 2} :
           Do_get_A(0, 0, t, 0, b, 1, endowment, TRUE)
    \/ \E x \in Young, b \in {1, 2} : Do_get_a(x, 0, WHOLE, 0, b, FALSE, TRUE)

NextStore == StoreAny \/ Fetch

SpecStore == InitStore /\ [][NextStore]_vars

(***************************************************************************)
(* Spec: every kind of fact and every public computed method, on a store   *)
(* of up to MaxSets facts about the ages below MaxAge.                     *)
(***************************************************************************)
Store ==
    \/ \E x \in Young : \E val \in Given(db_key_q(x, 1, 0)) : Do_set_q(val, x, 0, 1, 0)
    \/ \E x \in Young : \E val \in Given(db_key_p(x, 1)) : Do_set_p(val, x, 0, 1)
    \/ \E x \in Young :
           Do_set_e(Truth(db_key_e(x, WHOLE, TRUE, 1)), x, 0, WHOLE, TRUE, 1)
    \/ \E x \in Young : Do_set_E(Truth(db_key_E(x, 1, 1)), x, 0, 1, 1, 1)
    \/ \E x \in Young :
           Do_set_IA(Truth(db_key_IA(x, WHOLE, TRUE)), x, 0, WHOLE, 1, TRUE)
    \/ \E x \in Young : Do_set_DA(Truth(db_key_DA(x, 2, TRUE)), x, 0, 2, 1, TRUE)
    \/ \E x \in Young :
           Do_set_A(Truth(db_key_A(x, 0, WHOLE, 1, R(0), TRUE)),
                    x, 0, WHOLE, 0, 1, 1, 0, TRUE)
    \/ \E x \in Young :
           Do_set_a(Truth(db_key_a(x, 0, WHOLE, FALSE, TRUE)),
                    x, 0, WHOLE, 0, 1, FALSE, TRUE)

Query ==
    \/ \E x \in Young, t \in {1, 2}, u \in {0, 1} : Do_q_x(x, 0, t, u)
    \/ \E x \in Young, t \in {1, 2} : Do_p_x(x, 0, t)
    \/ \E x \in Young, t \in {WHOLE, 1} : Do_e_x(x, 0, t, TRUE, 1)
    \/ \E x \in Young, moment \in {1, VARIANCE} : Do_E_x(x, 0, 1, 1, moment)
    \/ \E x \in Young, t \in {WHOLE, 1} : Do_increasing_insurance(x, 0, t, 1, TRUE)
    \/ \E x \in Young, t \in {0, 2} : Do_decreasing_insurance(x, 0, t, 1, TRUE)
    \/ \E x \in Young, moment \in {1, 2} : Do_whole_life_insurance(x, 0, 1, TRUE, moment)
    \/ \E x \in Young, t \in {1, 2} : Do_term_insurance(x, 0, t, 1, 1, TRUE)
    \/ \E x \in Young, u \in {0, 1} : Do_deferred_insurance(x, 0, 1, u, WHOLE, 1, TRUE)
    \/ \E x \in Young, t \in {1, 2} : Do_endowment_insurance(x, 0, t, 1, -1, 1, TRUE)
    \/ \E x \in Young, variance \in BOOLEAN : Do_whole_life_annuity(x, 0, 1, variance, TRUE)
    \/ \E x \in Young, t \in {1, 2} : Do_temporary_annuity(x, 0, t, 1, FALSE, TRUE)
    \/ \E x \in Young, t \in {WHOLE, 1} : Do_deferred_annuity(x, 0, t, 1, 1, TRUE)

Lookup ==
    \/ \E x \in Young : Do_get_q(x, 0, 1, 0)
    \/ \E x \in Young : Do_get_p(x, 0, 1)
    \/ \E x \in Young : Do_get_e(x, 0, WHOLE, TRUE, 1)
    \/ \E x \in Young : Do_get_E(x, 0, 1, 1, 1)
    \/ \E x \in Young : Do_get_IA(x, 0, WHOLE, 1, TRUE)
    \/ \E x \in Young : Do_get_DA(x, 0, 2, 1, TRUE)
    \/ \E x \in Young : Do_get_A(x, 0, WHOLE, 0, 1, 1, 0, TRUE)
    \/ \E x \in Young : Do_get_a(x, 0, WHOLE, 0, 1, FALSE, TRUE)

Next == Store \/ Query \/ Lookup \/ Again

Spec == Init /\ [][Next]_vars

(***************************************************************************)
(* SpecMortality: mortality and survival on their own, with deferred,      *)
(* two-year and whole-life facts at every age, values that agree with the  *)
(* life table and values that do not.                                      *)
(***************************************************************************)
InitMortality == Init /\ interest = R(0) /\ parent = None

StoreMortality ==
    \/ \E x \in Ages, t \in {WHOLE, 1, 2}, u \in {0, 1} :
           \E val \in Given(db_key_q(x, t, u)) : Do_set_q(val, x, 0, t, u)
    \/ \E x \in Ages, t \in {1, 2} :
           \E val \in Given(db_key_p(x, t)) : Do_set_p(val, x, 0, t)

QueryMortality ==
    \/ \E x \in Young, t \in {WHOLE, 1, 2}, u \in {0, 1} : Do_q_x(x, 0, t, u)
    \/ \E x \in Young, t \in {1, 2} : Do_p_x(x, 0, t)

NextMortality == StoreMortality \/ QueryMortality

SpecMortality == InitMortality /\ [][NextMortality]_vars

(***************************************************************************)
(* SpecTwin: whole-life insurance and annuity facts of any amount, with    *)
(* mortality and survival facts beside them, and the two whole-life        *)
(* methods.                                                                *)
(***************************************************************************)
InitTwin == Init /\ parent = None

StoreTwin ==
    \/ \E x \in Young : \E val \in Given(db_key_A(x, 0, WHOLE, 1, R(0), TRUE)) :
           Do_set_A(val, x, 0, WHOLE, 0, 1, 1, 0, TRUE)
    \/ \E x \in Young : \E val \in Given(db_key_a(x, 0, WHOLE, FALSE, TRUE)) :
           Do_set_a(val, x, 0, WHOLE, 0, 1, FALSE, TRUE)
    \/ \E x \in Young : Do_set_q(Truth(db_key_q(x, 1, 0)), x, 0, 1, 0)
    \/ \E x \in Young : Do_set_p(Truth(db_key_p(x, 1)), x, 0, 1)

QueryTwin ==
    \/ \E x \in Young : Do_whole_life_annuity(x, 0, 1, FALSE, TRUE)
    \/ \E x \in Young : Do_whole_life_insurance(x, 0, 1, TRUE, 1)

NextTwin == StoreTwin \/ QueryTwin

SpecTwin == InitTwin /\ [][NextTwin]_vars

(***************************************************************************)
(* SpecDeferred: deferred whole-life insurance facts of several deferrals, *)
(* with the pure endowment and survival facts that link them, and the      *)
(* deferred insurance method.                                              *)
(***************************************************************************)
InitDeferred == Init /\ parent = None

StoreDeferred ==
    \/ \E x \in Young, u \in {0, 1, 2} :
           \E val \in Given(db_key_A(x, u, WHOLE, 1, R(0), TRUE)) :
               Do_set_A(val, x, 0, WHOLE, u, 1, 1, 0, TRUE)
    \/ \E x \in Young : Do_set_E(Truth(db_key_E(x, 1, 1)), x, 0, 1, 1, 1)
    \/ \E x \in Young : Do_set_p(Truth(db_key_p(x, 1)), x, 0, 1)

QueryDeferred ==
    \E x \in Young, u \in {1, 2} : Do_deferred_insurance(x, 0, 1, u, WHOLE, 1, TRUE)

NextDeferred == StoreDeferred \/ QueryDeferred

SpecDeferred == InitDeferred /\ [][NextDeferred]_vars

(***************************************************************************)
(* SpecKeys: facts of every kind stored, looked up and used by the public  *)
(* methods under every split of an age into the age at selection x and the *)
(* years elapsed s.                                                        *)
(***************************************************************************)
InitKeys == Init /\ interest = R(1) /\ parent = None

StoreKeys ==
    \E x \in Young, s \in {0, 1} :
        \/ \E val \in Given(db_key_q(x + s, 1, 0)) : Do_set_q(val, x, s, 1, 0)
        \/ \E val \in Given(db_key_p(x + s, 1)) : Do_set_p(val, x, s, 1)
        \/ Do_set_e(Truth(db_key_e(x + s, WHOLE, TRUE, 1)), x, s, WHOLE, TRUE, 1)
        \/ Do_set_E(Truth(db_key_E(x + s, 1, 1)), x, s, 1, 1, 1)
        \/ Do_set_IA(Truth(db_key_IA(x + s, WHOLE, TRUE)), x, s, WHOLE, 1, TRUE)
        \/ Do_set_DA(Truth(db_key_DA(x + s, 2, TRUE)), x, s, 2, 1, TRUE)
        \/ Do_set_A(Truth(db_key_A(x + s, 0, WHOLE, 1, R(0), TRUE)),
                    x, s, WHOLE, 0, 1, 1, 0, TRUE)
        \/ Do_set_a(Truth(db_key_a(x + s, 0, WHOLE, FALSE, TRUE)),
                    x, s, WHOLE, 0, 1, FALSE, TRUE)

LookupKeys ==
    \E x \in Young, s \in {0, 1} :
        \/ Do_get_q(x, s, 1, 0)
        \/ Do_get_p(x, s, 1)
        \/ Do_get_e(x, s, WHOLE, TRUE, 1)
        \/ Do_get_E(x, s, 1, 1, 1)
        \/ Do_get_IA(x, s, WHOLE, 1, TRUE)
        \/ Do_get_DA(x, s, 2, 1, TRUE)
        \/ Do_get_A(x, s, WHOLE, 0, 1, 1, 0, TRUE)
        \/ Do_get_a(x, s, WHOLE, 0, 1, FALSE, TRUE)

QueryKeys ==
    \E x \in Young, s \in {0, 1} :
        \/ Do_q_x(x, s, 1, 0)
        \/ Do_p_x(x, s, 1)
        \/ Do_e_x(x, s, WHOLE, TRUE, 1)
        \/ Do_E_x(x, s, 1, 1, 1)
        \/ Do_increasing_insurance(x, s, WHOLE, 1, TRUE)
        \/ Do_decreasing_insurance(x, s, 2, 1, TRUE)
        \/ Do_whole_life_insurance(x, s, 1, TRUE, 1)
        \/ Do_whole_life_annuity(x, s, 1, FALSE, TRUE)

NextKeys == StoreKeys \/ LookupKeys \/ QueryKeys

SpecKeys == InitKeys /\ [][NextKeys]_vars

(***************************************************************************)
(* SpecAmount: facts of the kinds that carry an amount, stored for amount  *)
(* 1 and then looked up and computed for the amounts 1 and 2.              *)
(***************************************************************************)
InitAmount == Init /\ interest = R(1) /\ parent = None

StoreAmount ==
    \E x \in Young :
        \/ Do_set_E(Truth(db_key_E(x, 1, 1)), x, 0, 1, 1, 1)
        \/ Do_set_IA(Truth(db_key_IA(x, WHOLE, TRUE)), x, 0, WHOLE, 1, TRUE)
        \/ Do_set_DA(Truth(db_key_DA(x, 2, TRUE)), x, 0, 2, 1, TRUE)
        \/ Do_set_A(Truth(db_key_A(x, 0, WHOLE, 1, R(0), TRUE)),
                    x, 0, WHOLE, 0, 1, 1, 0, TRUE)
        \/ Do_set_a(Truth(db_key_a(x, 0, WHOLE, FALSE, TRUE)),
                    x, 0, WHOLE, 0, 1, FALSE, TRUE)

LookupAmount ==
    \E x \in Young, k \in {1, 2} :
        \/ Do_get_E(x, 0, 1, k, 1)
        \/ Do_get_IA(x, 0, WHOLE, k, TRUE)
        \/ Do_get_DA(x, 0, 2, k, TRUE)
        \/ Do_get_A(x, 0, WHOLE, 0, k, 1, 0, TRUE)
        \/ Do_get_a(x, 0, WHOLE, 0, k, FALSE, TRUE)

QueryAmount ==
    \E x \in Young, k \in {1, 2} :
        \/ Do_E_x(x, 0, 1, k, 1)
        \/ Do_increasing_insurance(x, 0, WHOLE, k, TRUE)
        \/ Do_decreasing_insurance(x, 0, 2, k, TRUE)
        \/ Do_whole_life_insurance(x, 0, k, TRUE, 1)
        \/ Do_whole_life_annuity(x, 0, k, FALSE, TRUE)

NextAmount == StoreAmount \/ LookupAmount \/ QueryAmount

SpecAmount == InitAmount /\ [][NextAmount]_vars

(***************************************************************************)
(* SpecBlog: the tracer on its own.  A Blog is constructed (verbosity on   *)
(* or off), steps are recorded in it with Blog.__call__ and it is rendered *)
(* with str().                                                             *)
(***************************************************************************)
MaxSteps == 3

Messages == {<<"p = 1 - q">>, <<"p = p * p">>, <<"q = p * q">>}
Rules == {"complement of mortality", "chain rule"}

InitBlog ==
    /\ db = <<>>
    /\ interest = R(0)
    /\ maxdepth \in Depths
    /\ parent = None
    /\ verbose \in BOOLEAN
    /\ frame = NoFrame
    /\ peer = NoObject
    /\ blog = Blog_init(<<"Survival">> \o Blog_p(0, 0, 1))
    /\ out = <<>>
    /\ last = NoOp
    /\ prev = NoPrev
    /\ nsets = 0
    /\ ncalls = 0

\* self.blog(msg, depth=depth, rule=rule)
Do_Blog_call(msg, depth, rule) ==
    /\ ncalls < MaxSteps
    /\ blog' = WithLists(blog, Blog_call(Lists(blog), msg, depth, rule))
    /\ last' = Op("Blog.__call__", <<msg, depth, rule>>, None)
    /\ prev' = Seen(last)
    /\ ncalls' = ncalls + 1
    /\ UNCHANGED <<db, out, interest, maxdepth, parent, nsets, verbose, frame, peer>>

\* print(self.blog, end='')
Do_Blog_str ==
    /\ out' = Blog_str(blog)
    /\ last' = Op("Blog.__str__", <<>>, None)
    /\ prev' = Seen(last)
    /\ UNCHANGED <<db, blog, interest, maxdepth, parent, nsets, ncalls, verbose, frame, peer>>

NextBlog ==
    \/ \E msg \in Messages, depth \in Depths, rule \in Rules :
           Do_Blog_call(msg, depth, rule)
    \/ Do_Blog_str

SpecBlog == InitBlog /\ [][NextBlog]_vars

(***************************************************************************)
(* SpecFresh: two public calls in a row, of any two methods, on a store of *)
(* mortality, survival, insurance and annuity facts.                       *)
(***************************************************************************)
InitFresh == Init /\ interest = R(1) /\ parent = None

StoreFresh ==
    \E x \in Young :
        \/ Do_set_q(Truth(db_key_q(x, 1, 0)), x, 0, 1, 0)
        \/ Do_set_p(Truth(db_key_p(x, 1)), x, 0, 1)
        \/ Do_set_A(Truth(db_key_A(x, 0, WHOLE, 1, R(0), TRUE)),
                    x, 0, WHOLE, 0, 1, 1, 0, TRUE)
        \/ Do_set_a(Truth(db_key_a(x, 0, WHOLE, FALSE, TRUE)),
                    x, 0, WHOLE, 0, 1, FALSE, TRUE)

\* the calls a client makes in SpecFresh: every public method, at each age
Calls ==
    UNION {{<<"q_x", <<x, 0, 1, 1>>>>, <<"p_x", <<x, 0, 2>>>>,
            <<"e_x", <<x, 0, 1, TRUE, 1>>>>, <<"E_x", <<x, 0, 1, 1, 1>>>>,
            <<"increasing_insurance", <<x, 0, 1, 1, TRUE>>>>,
            <<"decreasing_insurance", <<x, 0, 2, 1, TRUE>>>>,
            <<"whole_life_insurance", <<x, 0, 1, TRUE, 1>>>>,
            <<"term_insurance", <<x, 0, 2, 1, 1, TRUE>>>>,
            <<"deferred_insurance", <<x, 0, 1, 1, WHOLE, 1, TRUE>>>>,
            <<"endowment_insurance", <<x, 0, 2, 1, -1, 2, TRUE>>>>,
            <<"whole_life_annuity", <<x, 0, 1, FALSE, TRUE>>>>,
            <<"temporary_annuity", <<x, 0, 2, 1, FALSE, TRUE>>>>,
            <<"deferred_annuity", <<x, 0, WHOLE, 1, 1, TRUE>>>>} : x \in Young}

FirstCall ==
    \E c \in Calls :
        /\ CanCall
        /\ \E res \in {Invoke(c[1], c[2])} : Public(c[1], c[2], Finish(res, parent))

SecondCall == \E c \in Calls : FollowUp(c[1], c[2])

NextFresh == StoreFresh \/ FirstCall \/ SecondCall

SpecFresh == InitFresh /\ [][NextFresh]_vars

(***************************************************************************)
(* SpecPriority: the deferred mortality 1|q_0 and 1|(whole)q_0 asked on    *)
(* stores of up to MaxFacts of the facts its three identities read, with   *)
(* values that agree with the life table and values that do not.           *)
(***************************************************************************)
MaxFacts == 3

InitPriority == Init /\ interest = R(0) /\ parent = None

StorePriority ==
    \/ \E k \in {<<0, 1, 0>>, <<0, 2, 0>>, <<0, 1, 1>>, <<1, 1, 0>>, <<1, WHOLE, 0>>} :
           \E val \in Given(db_key_q(k[1], k[2], k[3])) :
               SetterWithin(MaxFacts, "set_q", <<val, k[1], 0, k[2], k[3]>>,
                            set_q(val, k[1], 0, k[2], k[3]))
    \/ \E t \in {1, 2} : \E val \in Given(db_key_p(0, t)) :
           SetterWithin(MaxFacts, "set_p", <<val, 0, 0, t>>, set_p(val, 0, 0, t))

QueryPriority == \E t \in {WHOLE, 1} : Do_q_x(0, 0, t, 1)

NextPriority == StorePriority \/ QueryPriority

SpecPriority == InitPriority /\ [][NextPriority]_vars

(***************************************************************************)
(* The call stack of a public method.  A frame is a method of the engine   *)
(* that has been entered: its name, its arguments and its depth budget.    *)
(* The operators below list, for each method, the calls its code makes to  *)
(* methods of the engine, with the arguments and the depth each call       *)
(* passes.  A call is listed when the tests on the arguments and on the    *)
(* depth that stand before it let control reach it; whether a lookup hits  *)
(* or an earlier identity succeeds depends on the fact store, which is     *)
(* left open here, so the calls listed are those of every fact store.      *)
(***************************************************************************)
Site(f, a, depth) == [f |-> f, a |-> a, depth |-> depth]

_q_x_calls(x, s, t, u, depth) ==
    IF t = 0 \/ t < 0 THEN {}
    ELSE (IF u > 0 THEN {Site("_p_x", <<x, s, u>>, depth - 1)} ELSE {})
         \cup (IF depth <= 0 THEN {}
               ELSE {Site("_p_x", <<x, s, u>>, depth - 1),
                     Site("_p_x", <<x, s, u + t>>, depth - 1)})

_p_x_calls(x, s, t, depth) ==
    IF depth <= 0 THEN {}
    ELSE {Site("_p_x", <<x, s - 1, t + 1>>, depth - 1),
          Site("_p_x", <<x, s - 1, 1>>, Collateral(depth)),
          Site("_p_x", <<x, s, t + 1>>, depth - 1),
          Site("_p_x", <<x, s + t, 1>>, Collateral(depth))}
         \cup (IF t > 1
               THEN {Site("_p_x", <<x, s + 1, t - 1>>, depth - 1),
                     Site("_p_x", <<x, s, 1>>, Collateral(depth)),
                     Site("_p_x", <<x, s, t - 1>>, depth - 1),
                     Site("_p_x", <<x, s + t - 1, 1>>, Collateral(depth))}
               ELSE {})
         \cup (IF t = 1
               THEN {Site("_E_x", <<x, s, 1, 1, 1>>, depth - 1)}
                    \cup UNION {{Site("_a_x", <<x, s, _t, 0, 1, TRUE, FALSE>>,
                                      depth - 1),
                                 Site("_a_x", <<x, s + 1, add_term(_t, -1), 0, 1,
                                                TRUE, FALSE>>, depth - 1),
                                 Site("_A_x", <<x, s, _t, 0, 1, TRUE, 0, 1>>,
                                      depth - 1),
                                 Site("_A_x", <<x, s + 1, add_term(_t, -1), 0, 1,
                                                TRUE, 0, 1>>, depth - 1)}
                                : _t \in {WHOLE, 2}}
               ELSE {})

\* self._p_x(x, s=s, t=t) passes no depth: _p_x runs at its default, 1
_e_x_calls(x, s, t, curtate, moment, depth) ==
    IF depth <= 0 \/ moment # 1 THEN {}
    ELSE (IF t > 0
          THEN {Site("_p_x", <<x, s, t>>, 1)}
               \cup (IF t > 1
                     THEN {Site("_e_x", <<x, s, WHOLE, curtate, 1>>, depth - 1),
                           Site("_e_x", <<x, s + t, WHOLE, curtate, 1>>, depth - 1)}
                     ELSE {})
          ELSE {})
         \cup (IF t = 1 /\ curtate THEN {}
               ELSE {Site("_e_x", <<x, s - 1, add_term(t, 1), curtate, 1>>, depth - 1),
                     Site("_e_x", <<x, s - 1, 1, curtate, 1>>, depth - 1),
                     Site("_p_x", <<x, s - 1, 1>>, 1),
                     Site("_e_x", <<x, s, 1, curtate, 1>>, depth - 1),
                     Site("_e_x", <<x, s + 1, add_term(t, -1), curtate, 1>>, depth - 1),
                     Site("_p_x", <<x, s, 1>>, 1)})

\* the moment shortcut calls _E_x for the first moment of the one-year
\* endowment at the depth it was given; it and the call for the survival p
\* stand before the test of the depth
_E_x_calls(x, s, t, endowment, moment, depth) ==
    IF t < 0 \/ t = 0 THEN {}
    ELSE (IF moment > 1
          THEN {Site("_E_x", <<x, s, 1, endowment, 1>>, depth)}
          ELSE {})
         \cup {Site("_p_x", <<x, s, t>>, depth - 1)}
         \cup (IF depth <= 0 THEN {}
               ELSE {Site("_A_x", <<x, s, t, 0, endowment, TRUE, 0, moment>>,
                          depth - 1),
                     Site("_A_x", <<x, s, t, 0, endowment, TRUE, endowment, moment>>,
                          Collateral(depth)),
                     Site("_E_x", <<x, s, 1, 1, moment>>, Collateral(depth)),
                     Site("_E_x", <<x, s + 1, t - 1, 1, moment>>, depth - 1)})

_IA_x_calls(x, s, t, b, discrete, depth) ==
    IF t = 0 \/ depth <= 0 THEN {}
    ELSE (IF t > 0
          THEN {Site("_A_x", <<x, s, t, 0, b, discrete, 0, 1>>, depth - 1),
                Site("_DA_x", <<x, s, t, b, discrete>>, depth - 1)}
          ELSE {})
         \cup {Site("_A_x", <<x, s, 1, 0, b, discrete, 0, 1>>, depth - 1),
               Site("_IA_x", <<x, s + 1, add_term(t, -1), b, TRUE>>, depth - 1),
               Site("_p_x", <<x, s, 1>>, Collateral(depth))}

_DA_x_calls(x, s, t, b, discrete, depth) ==
    IF t = 0 \/ depth <= 0 \/ t < 0 THEN {}
    ELSE {Site("_A_x", <<x, s, t, 0, b, discrete, 0, 1>>, depth - 1),
          Site("_DA_x", <<x, s, t, b, discrete>>, depth - 1),
          Site("_IA_x", <<x, s + 1, add_term(t, -1), b, TRUE>>, depth - 1),
          Site("_p_x", <<x, s, 1>>, Collateral(depth))}

_A_x_calls(x, s, t, u, b, discrete, endowment, moment, depth) ==
    IF (endowment = b /\ t = 1 /\ discrete) \/ depth <= 0 THEN {}
    ELSE IF u > 0
    THEN {Site("_A_x", <<x, s + 1, t, u - 1, b, discrete, endowment, moment>>,
               depth - 1),
          Site("_E_x", <<x, s, 1, 1, moment>>, depth - 1),
          Site("_A_x", <<x, s - 1, t, u + 1, b, discrete, endowment, moment>>,
               depth - 1),
          Site("_E_x", <<x, s - 1, 1, 1, moment>>, depth - 1)}
    ELSE (IF endowment > 0
          THEN {Site("_A_x", <<x, s, t, 0, b, discrete, 0, moment>>,
                     Collateral(depth)),
                Site("_E_x", <<x, s, t, endowment, moment>>, Collateral(depth))}
          ELSE {Site("_A_x", <<x, s, t, 0, b, discrete, b, moment>>,
                     Collateral(depth)),
                Site("_E_x", <<x, s, t, b, moment>>, Collateral(depth))})
         \cup (IF ~discrete THEN {}
               ELSE (IF t = 1 /\ endowment # b
                     THEN {Site("_p_x", <<x, s, 1>>, 1)}
                     ELSE {})
                    \cup (IF t = 1 /\ endowment = b THEN {}
                          ELSE {Site("_A_x", <<x, s + 1, add_term(t, -1), 0, b,
                                               discrete, endowment, moment>>,
                                     depth - 1),
                                Site("_p_x", <<x, s, 1>>, Collateral(depth)),
                                Site("_A_x", <<x, s - 1, add_term(t, 1), u, b,
                                               discrete, endowment, moment>>,
                                     depth - 1),
                                Site("_p_x", <<x, s - 1, 1>>, Collateral(depth))}))

\* _a_x returns an amount (b, or 0) whatever the store holds and the depth is
_a_x_base_case(t, u, discrete) == (t = 1 /\ u = 0 /\ discrete) \/ t = 0

_a_x_calls(x, s, t, u, b, discrete, variance, depth) ==
    IF _a_x_base_case(t, u, discrete) \/ depth <= 0 \/ variance THEN {}
    ELSE IF u > 0
    THEN {Site("_a_x", <<x, s + 1, t, u - 1, b, discrete, variance>>, depth - 1),
          Site("_E_x", <<x, s, 1, 1, 1>>, depth - 1),
          Site("_a_x", <<x, s - 1, t, u + 1, b, discrete, FALSE>>, depth - 1),
          Site("_E_x", <<x, s - 1, 1, 1, 1>>, depth - 1)}
    ELSE {Site("_a_x", <<x, s + 1, add_term(t, -1), u, b, discrete, variance>>,
               depth - 1),
          Site("_E_x", <<x, s, 1, 1, 1>>, depth - 1),
          Site("_a_x", <<x, s - 1, add_term(t, 1), u, b, discrete, FALSE>>,
               depth - 1),
          Site("_E_x", <<x, s - 1, 1, 1, 1>>, depth - 1)}

\* the calls of a public method: its resolver at self.maxdepth, then, where
\* the method has one, the resolver of the twin kind at self.maxdepth
facade_calls(f, a) ==
    CASE f = "q_x" -> {Site("_q_x", a, maxdepth)}
      [] f = "p_x" -> {Site("_p_x", a, maxdepth)}
      [] f = "e_x" -> {Site("_e_x", a, maxdepth)}
      [] f = "E_x" ->
           IF a[5] = VARIANCE
           THEN {Site("p_x", <<a[1], a[2], a[3]>>, maxdepth)}
           ELSE {Site("_E_x", a, maxdepth)}
      [] f = "increasing_insurance" -> {Site("_IA_x", a, maxdepth)}
      [] f = "decreasing_insurance" -> {Site("_DA_x", a, maxdepth)}
      [] f = "whole_life_insurance" ->
           {Site("_A_x", <<a[1], a[2], WHOLE, 0, a[3], a[4], 0, a[5]>>, maxdepth)}
           \cup (IF a[5] = 1 /\ interest[1] > 0
                 THEN {Site("_a_x", <<a[1], a[2], WHOLE, 0, a[3], a[4], FALSE>>,
                            maxdepth)}
                 ELSE {})
      [] f = "term_insurance" ->
           {Site("_A_x", <<a[1], a[2], a[3], 0, a[4], a[6], 0, a[5]>>, maxdepth)}
      [] f = "deferred_insurance" -> {}
      [] f = "endowment_insurance" ->
           IF a[3] < 0 THEN {}
           ELSE {Site("_A_x", <<a[1], a[2], a[3], 0, a[4], a[7],
                                IF a[5] < 0 THEN a[4] ELSE a[5], a[6]>>, maxdepth)}
      [] f = "whole_life_annuity" ->
           {Site("_a_x", <<a[1], a[2], WHOLE, 0, a[3], a[5], a[4]>>, maxdepth)}
           \cup (IF ~a[4] /\ interest[1] > 0
                 THEN {Site("_A_x", <<a[1], a[2], WHOLE, 0, a[3], a[5], 0, 1>>,
                            maxdepth)}
                 ELSE {})
      [] f = "temporary_annuity" ->
           {Site("_a_x", <<a[1], a[2], a[3], 0, a[4], a[6], a[5]>>, maxdepth)}
           \cup (IF ~_a_x_base_case(a[3], 0, a[6]) /\ ~a[5] /\ interest[1] > 0
                 THEN {Site("_A_x", <<a[1], a[2], a[3], 0, a[4], a[6], a[4], 1>>,
                            maxdepth)}
                 ELSE {})
      [] f = "deferred_annuity" ->
           {Site("_a_x", <<a[1], a[2], a[3], a[4], a[5], a[6], FALSE>>, maxdepth)}
           \cup (IF _a_x_base_case(a[3], a[4], a[6]) THEN {}
                 ELSE {Site("_a_x", <<a[1], a[2], add_term(a[4], a[3]), 0, a[5], a[6],
                                      FALSE>>, maxdepth),
                       Site("_a_x", <<a[1], a[2], a[4], 0, a[5], a[6], FALSE>>,
                            maxdepth)})

\* the calls the method of a frame makes to methods of the engine
CallSites(f, a, depth) ==
    CASE f = "_q_x" -> _q_x_calls(a[1], a[2], a[3], a[4], depth)
      [] f = "_p_x" -> _p_x_calls(a[1], a[2], a[3], depth)
      [] f = "_e_x" -> _e_x_calls(a[1], a[2], a[3], a[4], a[5], depth)
      [] f = "_E_x" -> _E_x_calls(a[1], a[2], a[3], a[4], a[5], depth)
      [] f = "_IA_x" -> _IA_x_calls(a[1], a[2], a[3], a[4], a[5], depth)
      [] f = "_DA_x" -> _DA_x_calls(a[1], a[2], a[3], a[4], a[5], depth)
      [] f = "_A_x" ->
           _A_x_calls(a[1], a[2], a[3], a[4], a[5], a[6], a[7], a[8], depth)
      [] f = "_a_x" -> _a_x_calls(a[1], a[2], a[3], a[4], a[5], a[6], a[7], depth)
      [] OTHER -> facade_calls(f, a)

(***************************************************************************)
(* Call chains: facts are set, a public method is called on a Recursion of *)
(* any configured depth, negative depths included, and the model follows   *)
(* one chain of nested calls from it, call by call, until control returns  *)
(* to the client with the method's result for the facts that were set.     *)
(* A frame is the method on top of the stack (f, a, depth), the number of  *)
(* frames on the stack (nest) and the public method at its bottom (op,     *)
(* args).                                                                  *)
(***************************************************************************)
Resolvers == {"_q_x", "_p_x", "_e_x", "_E_x", "_IA_x", "_DA_x", "_A_x", "_a_x"}

ChainDepths == (0 - MaxDepth)..MaxDepth

\* longest chain the model follows; no chain of the code comes near it
MaxNest == 5 * MaxDepth + 8

Terms == {WHOLE, 1, 2}

Entries ==
    {<<"q_x", <<0, 0, t, u>>>> : t \in Terms, u \in {0, 1}}
    \cup {<<"p_x", <<0, 0, t>>>> : t \in Terms}
    \cup {<<"e_x", <<0, 0, t, c, m>>>> : t \in Terms, c \in BOOLEAN, m \in {1, 2}}
    \cup {<<"E_x", <<0, 0, t, 1, m>>>> : t \in Terms, m \in {1, 2, VARIANCE}}
    \cup {<<"increasing_insurance", <<0, 0, t, 1, d>>>> : t \in Terms, d \in BOOLEAN}
    \cup {<<"decreasing_insurance", <<0, 0, t, 1, d>>>> : t \in Terms, d \in BOOLEAN}
    \cup {<<"whole_life_insurance", <<0, 0, 1, d, m>>>> : d \in BOOLEAN, m \in {1, 2}}
    \cup {<<"term_insurance", <<0, 0, t, 1, m, d>>>> :
            t \in Terms, m \in {1, 2}, d \in BOOLEAN}
    \cup {<<"deferred_insurance", <<0, 0, 1, u, t, 1, TRUE>>>> :
            t \in Terms, u \in {0, 1}}
    \cup {<<"endowment_insurance", <<0, 0, t, 1, e, m, d>>>> :
            t \in Terms, e \in {-1, 0, 2}, m \in {1, 2}, d \in BOOLEAN}
    \cup {<<"whole_life_annuity", <<0, 0, 1, v, d>>>> : v \in BOOLEAN, d \in BOOLEAN}
    \cup {<<"temporary_annuity", <<0, 0, t, 1, v, d>>>> :
            t \in Terms, v \in BOOLEAN, d \in BOOLEAN}
    \cup {<<"deferred_annuity", <<0, 0, t, u, 1, d>>>> :
            t \in Terms, u \in {0, 1}, d \in BOOLEAN}

InitChain ==
    /\ db = <<>>
    /\ interest \in Rates
    /\ maxdepth \in ChainDepths
    /\ parent \in Sup
    /\ verbose = TRUE
    /\ frame = NoFrame
    /\ peer = NoObject
    /\ blog = [title |-> <<>>, levels |-> maxdepth,
               _history |-> <<>>, _depths |-> <<>>, _rules |-> <<>>]
    /\ out = <<>>
    /\ last = NoOp
    /\ prev = NoPrev
    /\ nsets = 0
    /\ ncalls = 0

StoreChain ==
    /\ frame = NoFrame
    /\ \/ Do_set_p(Truth(db_key_p(0, 1)), 0, 0, 1)
       \/ Do_set_q(Truth(db_key_q(1, 1, 0)), 1, 0, 1, 0)

\* a public method is called from outside: it is the first frame
Enter ==
    /\ frame = NoFrame
    /\ CanCall
    /\ \E c \in Entries :
         frame' = [op |-> c[1], args |-> c[2],
                   f |-> c[1], a |-> c[2], depth |-> maxdepth, nest |-> 1]
    /\ UNCHANGED <<db, blog, out, last, prev, interest, maxdepth, parent, nsets,
                   ncalls, verbose, peer>>

\* the method f on top of the stack makes one of its calls
Descend(f) ==
    /\ frame.f = f
    /\ frame.nest < MaxNest
    /\ \E c \in CallSites(frame.f, frame.a, frame.depth) :
         frame' = [frame EXCEPT !.f = c.f, !.a = c.a, !.depth = c.depth,
                                !.nest = frame.nest + 1]
    /\ UNCHANGED <<db, blog, out, last, prev, interest, maxdepth, parent, nsets,
                   ncalls, verbose, peer>>

\* the calls on the stack return, the last of them the public method, which
\* hands its result to the client
Return ==
    /\ frame # NoFrame
    /\ \E res \in {Finish(Invoke(frame.op, frame.args), parent)} :
         /\ last' = Op(frame.op, frame.args, res.r)
         /\ prev' = Seen(last)
         /\ blog' = res.blog
         /\ out' = res.out
    /\ ncalls' = ncalls + 1
    /\ frame' = NoFrame
    /\ UNCHANGED <<db, interest, maxdepth, parent, nsets, verbose, peer>>

NextChain ==
    \/ StoreChain
    \/ Enter
    \/ \E f \in Resolvers \cup PublicOps : Descend(f)
    \/ Return

SpecChain == InitChain /\ [][NextChain]_vars

(***************************************************************************)
(* SpecSentinel: facts are stored under the terms that the resolvers treat *)
(* as base cases (t = 0, and the whole-life term, which is negative), and  *)
(* the quantities of those terms are then computed.                        *)
(***************************************************************************)
InitSentinel == Init /\ interest = R(1) /\ parent = None

StoreSentinel ==
    \E x \in Young :
        \/ \E t \in {0, WHOLE} : Do_set_q(<<1, 2>>, x, 0, t, 0)
        \/ \E t \in {0, WHOLE} : Do_set_p(<<1, 2>>, x, 0, t)
        \/ \E t \in {0, WHOLE} : Do_set_E(<<1, 2>>, x, 0, t, 1, 1)
        \/ Do_set_IA(<<1, 2>>, x, 0, 0, 1, TRUE)
        \/ Do_set_DA(<<1, 2>>, x, 0, 0, 1, TRUE)
        \/ Do_set_a(<<1, 2>>, x, 0, 0, 0, 1, FALSE, TRUE)

QuerySentinel ==
    \E x \in Young :
        \/ \E t \in {0, WHOLE} : Do_q_x(x, 0, t, 0)
        \/ \E t \in {0, WHOLE} : Do_p_x(x, 0, t)
        \/ \E t \in {0, WHOLE}, k \in {1, 2} : Do_E_x(x, 0, t, k, 1)
        \/ Do_increasing_insurance(x, 0, 0, 1, TRUE)
        \/ Do_decreasing_insurance(x, 0, 0, 1, TRUE)
        \/ Do_temporary_annuity(x, 0, 0, 1, FALSE, TRUE)

NextSentinel == StoreSentinel \/ QuerySentinel

SpecSentinel == InitSentinel /\ [][NextSentinel]_vars

(***************************************************************************)
(* SpecExercise: the survival exercise of the module's own run (depth 3;   *)
(* p_0 = 0.99, p_1 = 0.985, 3_p_1 = 0.95, q_3 = 0.02).  The four facts     *)
(* fix the one-year survival of the ages 0 to 3; up to ExerciseFacts facts *)
(* that agree with it are stored, and survival and the deferred mortality  *)
(* of the exercise are computed.                                           *)
(***************************************************************************)
ExerciseFacts == 4

Exercise_p(x) ==
    CASE x = 0 -> <<99, 100>>
      [] x = 1 -> <<197, 200>>
      [] x = 2 -> Div(<<19, 20>>, Mul(<<197, 200>>, Sub(R(1), <<1, 50>>)))
      [] OTHER -> Sub(R(1), <<1, 50>>)

RECURSIVE Exercise_tp(_, _)
Exercise_tp(x, t) ==
    IF t <= 0 THEN R(1) ELSE Mul(Exercise_p(x), Exercise_tp(x + 1, t - 1))

Exercise_q(x, t, u) == Sub(Exercise_tp(x, u), Exercise_tp(x, u + t))

InitExercise ==
    /\ db = <<>>
    /\ interest = R(1)
    /\ maxdepth = 3
    /\ parent = None
    /\ verbose = TRUE
    /\ frame = NoFrame
    /\ peer = NoObject
    /\ blog = [title |-> <<>>, levels |-> maxdepth,
               _history |-> <<>>, _depths |-> <<>>, _rules |-> <<>>]
    /\ out = <<>>
    /\ last = NoOp
    /\ prev = NoPrev
    /\ nsets = 0
    /\ ncalls = 0

StoreExercise ==
    \/ \E k \in {<<0, 1>>, <<1, 1>>, <<1, 3>>, <<0, 2>>, <<2, 1>>} :
           SetterWithin(ExerciseFacts, "set_p", <<Exercise_tp(k[1], k[2]), k[1], 0, k[2]>>,
                        set_p(Exercise_tp(k[1], k[2]), k[1], 0, k[2]))
    \/ \E k \in {<<3, 1>>, <<0, 1>>, <<1, 2>>} :
           SetterWithin(ExerciseFacts, "set_q",
                        <<Exercise_q(k[1], k[2], 0), k[1], 0, k[2], 0>>,
                        set_q(Exercise_q(k[1], k[2], 0), k[1], 0, k[2], 0))

QueryExercise ==
    \/ \E x \in 0..3, t \in 1..3 : Do_p_x(x, 0, t)
    \/ Do_q_x(0, 0, 2, 1)

NextExercise == StoreExercise \/ QueryExercise

SpecExercise == InitExercise /\ [][NextExercise]_vars

(***************************************************************************)
(* SpecBackward: the whole-life annuity asked on stores of up to MaxFacts  *)
(* of the facts its backward recursion reads (the annuity one year later,  *)
(* the one-year survival, mortality and pure endowment), with an interest  *)
(* rate of 100% or of 6% and every maxdepth.                               *)
(***************************************************************************)
InitBackward ==
    /\ db = <<>>
    /\ interest \in {R(1), <<3, 50>>}
    /\ maxdepth \in Depths
    /\ parent = None
    /\ verbose = TRUE
    /\ frame = NoFrame
    /\ peer = NoObject
    /\ blog = [title |-> <<>>, levels |-> maxdepth,
               _history |-> <<>>, _depths |-> <<>>, _rules |-> <<>>]
    /\ out = <<>>
    /\ last = NoOp
    /\ prev = NoPrev
    /\ nsets = 0
    /\ ncalls = 0

StoreBackward ==
    \/ \E x \in Ages : \E val \in {Truth(db_key_a(x, 0, WHOLE, FALSE, TRUE)), R(7)} :
           SetterWithin(MaxFacts, "set_a", <<val, x, 0, WHOLE, 0, 1, FALSE, TRUE>>,
                        set_a(val, x, 0, WHOLE, 0, 1, FALSE, TRUE))
    \/ \E x \in Young : \E val \in {Truth(db_key_q(x, 1, 0)), <<1, 20>>} :
           SetterWithin(MaxFacts, "set_q", <<val, x, 0, 1, 0>>, set_q(val, x, 0, 1, 0))
    \/ \E x \in Young : \E val \in {Truth(db_key_p(x, 1))} :
           SetterWithin(MaxFacts, "set_p", <<val, x, 0, 1>>, set_p(val, x, 0, 1))
    \/ \E x \in Young : \E val \in Given(db_key_E(x, 1, 1)) :
           SetterWithin(MaxFacts, "set_E", <<val, x, 0, 1, 1, 1>>,
                        set_E(val, x, 0, 1, 1, 1))

QueryBackward == \E x \in Young, b \in {1, 2} : Do_whole_life_annuity(x, 0, b, FALSE, TRUE)

NextBackward == StoreBackward \/ QueryBackward

SpecBackward == InitBackward /\ [][NextBackward]_vars

(***************************************************************************)
(* SpecMoment: the second moment of the pure endowment asked on stores of  *)
(* first-moment pure endowments (terms 1 and 2, the value 0 included) and  *)
(* one-year survivals.                                                     *)
(***************************************************************************)
InitMoment == Init /\ interest = R(1) /\ parent = None

StoreMoment ==
    \/ \E x \in Young, t \in {1, 2} : \E val \in Given(db_key_E(x, t, 1)) \cup {R(0)} :
           Do_set_E(val, x, 0, t, 1, 1)
    \/ \E x \in Young : Do_set_p(Truth(db_key_p(x, 1)), x, 0, 1)

QueryMoment == \E x \in Young, t \in {1, 2}, k \in {1, 2} : Do_E_x(x, 0, t, k, 2)

NextMoment == StoreMoment \/ QueryMoment

SpecMoment == InitMoment /\ [][NextMoment]_vars

(***************************************************************************)
(* SpecVarying: the increasing and the decreasing insurance asked on       *)
(* stores of the facts their identities read: the term insurance, the      *)
(* increasing and the decreasing insurance and the one-year survival.      *)
(***************************************************************************)
InitVarying == Init /\ interest = R(1) /\ parent = None

StoreVarying ==
    \/ \E x \in Young, t \in {1, 2} : \E val \in Given(db_key_A(x, 0, t, 1, R(0), TRUE)) :
           Do_set_A(val, x, 0, t, 0, 1, 1, 0, TRUE)
    \/ \E x \in Ages, t \in {1, 2} : \E val \in Given(db_key_IA(x, t, TRUE)) :
           Do_set_IA(val, x, 0, t, 1, TRUE)
    \/ \E x \in Ages, t \in {1, 2} : \E val \in Given(db_key_DA(x, t, TRUE)) :
           Do_set_DA(val, x, 0, t, 1, TRUE)
    \/ \E x \in Young : Do_set_p(Truth(db_key_p(x, 1)), x, 0, 1)

QueryVarying ==
    \E x \in Young, t \in {1, 2} :
        \/ Do_decreasing_insurance(x, 0, t, 1, TRUE)
        \/ Do_increasing_insurance(x, 0, t, 1, TRUE)

NextVarying == StoreVarying \/ QueryVarying

SpecVarying == InitVarying /\ [][NextVarying]_vars

(***************************************************************************)
(* SpecEndowment: the endowment insurance asked on stores of temporary     *)
(* annuities, endowment insurances and one-year survivals.                 *)
(***************************************************************************)
InitEndowment == Init /\ parent = None

StoreEndowment ==
    \/ \E x \in Young, t \in {1, 2} : \E val \in Given(db_key_a(x, 0, t, FALSE, TRUE)) :
           Do_set_a(val, x, 0, t, 0, 1, FALSE, TRUE)
    \/ \E x \in Young : \E val \in Given(db_key_A(x, 0, 2, 1, R(1), TRUE)) :
           Do_set_A(val, x, 0, 2, 0, 1, 1, 1, TRUE)
    \/ \E x \in Young : Do_set_p(Truth(db_key_p(x, 1)), x, 0, 1)

QueryEndowment ==
    \E x \in Young, t \in {1, 2}, endowment \in {-1, 1} :
        Do_endowment_insurance(x, 0, t, 1, endowment, 1, TRUE)

NextEndowment == StoreEndowment \/ QueryEndowment

SpecEndowment == InitEndowment /\ [][NextEndowment]_vars

(***************************************************************************)
(* SpecHelper: the resolver of the insurance called as a method with a     *)
(* deferral u > 0 and a depth of its own, on the stores of SpecDeferred.   *)
(* No public method of the engine calls it with a deferral; the client     *)
(* calls it on an object whose tracer a call of deferred_insurance has     *)
(* set.                                                                    *)
(***************************************************************************)
Do__A_x(x, s, t, u, b, discrete, endowment, moment, depth) ==
    /\ last.op \in PublicOps
    /\ \E res \in {Call("_A_x", Lists(blog),
                         <<x, s, t, u, b, discrete, endowment, moment>>, depth)} :
         /\ last' = Op("_A_x", <<x, s, t, u, b, discrete, endowment, moment, depth>>,
                       res.r)
         /\ blog' = WithLists(blog, res.h)
    /\ prev' = Seen(last)
    /\ ncalls' = ncalls + 1
    /\ UNCHANGED <<db, out, interest, maxdepth, parent, nsets, verbose, frame, peer>>

QueryHelper ==
    \E x \in Ages, u \in {1, 2}, depth \in 0..MaxDepth :
        Do__A_x(x, 0, WHOLE, u, 1, TRUE, 0, 1, depth)

NextHelper == StoreDeferred \/ QueryDeferred \/ QueryHelper

SpecHelper == InitDeferred /\ [][NextHelper]_vars

(***************************************************************************)
(* SpecIsolation: two Recursion objects.  The variables db, maxdepth,      *)
(* interest and blog are the attributes of the object the client is        *)
(* working on, peer holds those of the other object, and verbose is the    *)
(* class attribute Blog._verbose, which every construction assigns.  The   *)
(* first object is constructed with verbose=True; the client constructs a  *)
(* second one, turns from one object to the other, stores facts and calls  *)
(* p_x and q_x.                                                            *)
(***************************************************************************)
InitIsolation == Init /\ interest = R(1) /\ parent = None

\* the name of the object the client is working on
Current == IF peer.name = "R1" THEN "R2" ELSE "R1"

\* Recursion(depth=depth, verbose=v).set_interest(i=1) constructs the second
\* object
Construct(depth, v) ==
    /\ peer = NoObject
    /\ peer' = [name |-> "R2", db |-> <<>>, maxdepth |-> depth, interest |-> R(1),
                blog |-> [title |-> <<>>, levels |-> depth,
                          _history |-> <<>>, _depths |-> <<>>, _rules |-> <<>>]]
    /\ verbose' = v
    /\ UNCHANGED <<db, blog, out, last, prev, interest, maxdepth, parent, nsets,
                   ncalls, frame>>

\* the client turns to the other object
Switch ==
    /\ peer # NoObject
    /\ db' = peer.db
    /\ maxdepth' = peer.maxdepth
    /\ interest' = peer.interest
    /\ blog' = peer.blog
    /\ peer' = [name |-> Current, db |-> db, maxdepth |-> maxdepth,
                interest |-> interest, blog |-> blog]
    /\ UNCHANGED <<out, last, prev, parent, nsets, ncalls, verbose, frame>>

StoreIsolation ==
    \E x \in Young :
        \/ \E val \in Given(db_key_q(x, 1, 0)) : Do_set_q(val, x, 0, 1, 0)
        \/ \E val \in Given(db_key_p(x, 1)) : Do_set_p(val, x, 0, 1)

QueryIsolation == \E x \in Young : Do_p_x(x, 0, 1) \/ Do_q_x(x, 0, 1, 0)

NextIsolation ==
    \/ \E depth \in Depths, v \in BOOLEAN : Construct(depth, v)
    \/ Switch
    \/ StoreIsolation
    \/ QueryIsolation

SpecIsolation == InitIsolation /\ [][NextIsolation]_vars

(***************************************************************************)
(* Properties of the fact store (checked under SpecStore).                 *)
(***************************************************************************)
SetOps == {"set_q", "set_p", "set_e", "set_E", "set_IA", "set_DA", "set_A", "set_a"}
GetOps == {"get_q", "get_p", "get_e", "get_E", "get_IA", "get_DA", "get_A", "get_a"}

SetterOf(op) ==
    CASE op = "get_q" -> "set_q" [] op = "get_p" -> "set_p"
      [] op = "get_e" -> "set_e" [] op = "get_E" -> "set_E"
      [] op = "get_IA" -> "set_IA" [] op = "get_DA" -> "set_DA"
      [] op = "get_A" -> "set_A" [] op = "get_a" -> "set_a"

\* last is a get_<kind> that directly follows the set_<kind> of the same
\* parameters, and that setter returned normally
GetAfterSet ==
    /\ last.op \in GetOps
    /\ prev.op = SetterOf(last.op)
    /\ Tail(prev.args) = last.args
    /\ prev.r # Raise

\* a term of 0 is answered by get_p and get_A without consulting the store
TermOf(op) == IF op.op \in {"get_p", "get_A"} THEN op.args[3] ELSE 1

\* C1: a get_<kind> that directly follows set_<kind>(v, params) with the same
\* parameters and v not None returns exactly v (stated here for terms the
\* getter looks up in the store, and for setters that returned).
C1_RoundTrip ==
    (GetAfterSet /\ prev.args[1] # None /\ TermOf(last) # 0)
        => last.r = prev.args[1]

\* C2: set_<kind>(None, params) completes normally, and a get_<kind>(params)
\* that follows it reports None.
C2_Removal ==
    /\ (last.op \in SetOps /\ last.args[1] = None) => last.r # Raise
    /\ (GetAfterSet /\ prev.args[1] = None /\ TermOf(last) # 0) => last.r = None

\* C3: the fact store holds no key whose value is None.
C3_NoStoredNone == \A key \in DOMAIN db : db[key] # None

(***************************************************************************)
(* Properties of the public computed methods (checked under Spec).         *)
(***************************************************************************)
\* C4: no get_<kind> and no public computed method (with the resolvers it
\* calls) adds, removes or changes an entry of the fact store: db after the
\* call equals db before it, whatever the call returns.
C4_NoWriteBack == [][(last'.op \in GetOps \cup PublicOps) => db' = db]_vars

\* a public method has derived a value from stored facts through at least
\* one identity, right after the facts were stored
C4_Derived ==
    /\ last.op \in PublicOps
    /\ prev.op \in SetOps
    /\ IsVal(last.r)
    /\ Len(blog._history) > 0
    /\ db # <<>>

\* last repeats the public call made just before it, with the same arguments
Repeated ==
    /\ prev.op \in PublicOps
    /\ last.op = prev.op
    /\ last.args = prev.args

DirectAnswer ==
    LET a == last.args
    IN  CASE last.op = "q_x" -> get_q(a[1], a[2], a[3], a[4]) # None \/ a[3] <= 0
          [] last.op = "p_x" -> get_p(a[1], a[2], a[3]) # None
          [] last.op = "e_x" -> get_e(a[1], a[2], a[3], a[4], a[5]) # None \/ a[3] = 0
          [] last.op = "E_x" -> get_E(a[1], a[2], a[3], a[4], a[5]) # None \/ a[3] = 0

\* C6: with depth budget 0 a resolver returns a value only through a
\* sentinel of the term or an exact store hit for the requested key, never
\* through an identity (stated for the public methods that hand their
\* arguments straight to _q_x, _p_x, _e_x and _E_x at depth maxdepth).
C6_DepthZero ==
    (/\ maxdepth = 0
     /\ last.op \in {"q_x", "p_x", "e_x", "E_x"}
     /\ last.op = "E_x" => last.args[5] # VARIANCE
     /\ IsVal(last.r))
        => DirectAnswer /\ Len(blog._history) = 0

\* C7: the engine's own code never raises: a public computed method returns
\* a value or None, whatever the store, maxdepth and arguments.
C7_NeverRaises == (last.op \in PublicOps) => last.r # Raise

(***************************************************************************)
(* Properties of mortality and survival (checked under SpecMortality).     *)
(***************************************************************************)
\* last is q_x(x, s, t, u) for a deferred key (u > 0) that is not stored,
\* while mortality q(x+s+u, t) is stored
DeferredCall ==
    /\ last.op = "q_x"
    /\ last.args[4] > 0
    /\ get_q(last.args[1], last.args[2], last.args[3], last.args[4]) = None
    /\ get_q(last.args[1], last.args[2] + last.args[4], last.args[3], 0) # None

\* the deferred mortality returned is p(x, u) * q(x+u, t), for p(x, u) as
\* stored and as the survival resolver derives it with one unit less of depth
DeferredProduct ==
    LET x == last.args[1]
        sel == last.args[2]
        t == last.args[3]
        u == last.args[4]
        qt == get_q(x, sel + u, t, 0)
        pu == Call("_p_x", NewBlog, <<x, sel, u>>, maxdepth - 1).r
    IN  /\ get_p(x, sel, u) # None => last.r = Mul(get_p(x, sel, u), qt)
        /\ IsVal(pu) => last.r = Mul(pu, qt)

\* C8 as claimed: when the deferred key is not stored, u > 0, q(x+u, t) is
\* stored and p(x, u) resolves, q_x(x, u=u, t=t) returns p(x, u) * q(x+u, t),
\* for every term t.
C8_DeferredMortalityAnyTerm == DeferredCall => DeferredProduct

\* C8 as amended: the same for every term t >= 1 (a term of 0 or a negative
\* term is answered by its sentinel before the identity is tried).
C8_DeferredMortality == (DeferredCall /\ last.args[3] >= 1) => DeferredProduct

\* survival p(x, u) and mortality q(x+u, t) are both stored and the deferred
\* mortality of a term t >= 1 was asked for
C8_BothStored ==
    /\ DeferredCall
    /\ last.args[3] >= 1
    /\ db_key_p(last.args[1] + last.args[2], last.args[4]) \in DOMAIN db
    /\ IsVal(last.r)
    /\ last.r # R(0)

\* the survival probability the survival method returns for the arguments of
\* the mortality call last, on the same store and at the same maxdepth
SurvivalFor == Invoke("p_x", <<last.args[1], last.args[2], last.args[3]>>).r

\* C10 as claimed: whenever q_x(x, t=t) and p_x(x, t=t) both return a value,
\* the two sum to 1.
C10_Complement ==
    (last.op = "q_x" /\ last.args[4] = 0 /\ IsVal(last.r) /\ IsVal(SurvivalFor))
        => Add(last.r, SurvivalFor) = R(1)

\* C10 as amended: whenever q_x(x, t=t) and p_x(x, t=t) both return a value
\* and the stored facts agree with one another (they are the values of one
\* life table), the two sum to 1.
C10_ComplementOfConsistent ==
    (/\ last.op = "q_x" /\ last.args[4] = 0
     /\ Consistent
     /\ IsVal(last.r) /\ IsVal(SurvivalFor))
        => Add(last.r, SurvivalFor) = R(1)

\* both methods return a value, one of them at least through an identity,
\* from facts that agree
C10_BothDerived ==
    /\ last.op = "q_x" /\ last.args[4] = 0
    /\ Consistent
    /\ db # <<>>
    /\ IsVal(last.r) /\ IsVal(SurvivalFor)
    /\ Len(blog._history) > 0

(***************************************************************************)
(* The twin relation (checked under SpecTwin).                             *)
(***************************************************************************)
\* the facts stored are all of the kinds named
OnlyKinds(kinds) == \A key \in DOMAIN db : key[1] \in kinds

\* whole_life_annuity(x) is asked with i > 0 while whole-life insurance A is
\* stored for the age and no annuity or survival fact is stored
AnnuityFromInsurance ==
    /\ last.op = "whole_life_annuity"
    /\ interest[1] > 0
    /\ get_A(last.args[1], last.args[2], 0, WHOLE, 1, 1, 0, TRUE) # None
    /\ OnlyKinds({"A", "q", "e", "E", "IA", "DA"})

\* whole_life_insurance(x) is asked with i > 0 while only annuity facts are
\* stored, the whole-life annuity of the age among them
InsuranceFromAnnuity ==
    /\ last.op = "whole_life_insurance"
    /\ interest[1] > 0
    /\ get_a(last.args[1], last.args[2], 0, WHOLE, 1, FALSE, TRUE) # None
    /\ OnlyKinds({"a"})

\* C9: with i > 0, whole-life insurance A stored for the age and no annuity
\* or survival fact stored, whole_life_annuity(age) returns (1 - A) / d with
\* d = i / (1 + i); with only the annuity a stored, whole_life_insurance(age)
\* returns 1 - d * a.
C9_Twin ==
    /\ AnnuityFromInsurance =>
          last.r = Div(Sub(R(1), get_A(last.args[1], last.args[2], 0, WHOLE, 1, 1, 0, TRUE)),
                       Div(interest, Add(R(1), interest)))
    /\ InsuranceFromAnnuity =>
          last.r = Sub(R(1), Mul(Div(interest, Add(R(1), interest)),
                                 get_a(last.args[1], last.args[2], 0, WHOLE, 1, FALSE, TRUE)))

\* the annuity was obtained from a stored insurance by the twin relation
C9_AnnuityByTwin == AnnuityFromInsurance /\ IsVal(last.r) /\ db # <<>>

(***************************************************************************)
(* Fallback order of the insurance and annuity facades.                    *)
(***************************************************************************)
FallbackOps ==
    {"whole_life_insurance", "endowment_insurance", "whole_life_annuity",
     "temporary_annuity"}

\* what the facade's own resolver answers for the call (op, a), run at
\* maxdepth
OwnKind(op, a) ==
    CASE op = "whole_life_insurance" ->
           Call("_A_x", NewBlog, <<a[1], a[2], WHOLE, 0, a[3], a[4], 0, a[5]>>, maxdepth).r
      [] op = "endowment_insurance" ->
           Call("_A_x", NewBlog,
                <<a[1], a[2], a[3], 0, a[4], a[7], IF a[5] < 0 THEN a[4] ELSE a[5], a[6]>>,
                maxdepth).r
      [] op = "whole_life_annuity" ->
           Call("_a_x", NewBlog, <<a[1], a[2], WHOLE, 0, a[3], a[5], a[4]>>, maxdepth).r
      [] op = "temporary_annuity" ->
           Call("_a_x", NewBlog, <<a[1], a[2], a[3], 0, a[4], a[6], a[5]>>, maxdepth).r

\* the facade has a twin step for these arguments
TwinApplies(op, a) ==
    /\ interest[1] > 0
    /\ CASE op = "whole_life_insurance" -> a[5] = 1
         [] op = "endowment_insurance" ->
              a[6] = 1 /\ (IF a[5] < 0 THEN a[4] ELSE a[5]) = a[4]
         [] op = "whole_life_annuity" -> ~a[4]
         [] op = "temporary_annuity" -> ~a[5]

\* what the other kind's resolver answers in the twin step (the call of
\* endowment_insurance's twin step raises before _a_x runs)
OtherKind(op, a) ==
    CASE op = "whole_life_insurance" ->
           Call("_a_x", NewBlog, <<a[1], a[2], WHOLE, 0, a[3], a[4], FALSE>>, maxdepth).r
      [] op = "endowment_insurance" -> Raise
      [] op = "whole_life_annuity" ->
           Call("_A_x", NewBlog, <<a[1], a[2], WHOLE, 0, a[3], a[5], 0, 1>>, maxdepth).r
      [] op = "temporary_annuity" ->
           Call("_A_x", NewBlog, <<a[1], a[2], a[3], 0, a[4], a[6], a[4], 1>>, maxdepth).r

\* the call ended in the twin step: the twin relation is the newest step of
\* its tracer
ViaTwin ==
    /\ Len(blog._history) > 0
    /\ blog._rules[1] \in {"annuity twin", "insurance twin"}

\* the call reached super(): the collaborator was invoked
Delegated == Invoke(last.op, last.args).r = Super

\* C11: in whole_life_insurance, endowment_insurance, whole_life_annuity and
\* temporary_annuity the own-kind resolver runs first at maxdepth and its
\* answer, if it has one, is the result, with no twin step and no
\* collaborator; the call ends in the twin step only after the own-kind
\* resolver returned unknown; the collaborator is invoked only after the
\* own-kind resolver and, where the twin step applies, the other kind's
\* resolver both returned unknown.
C11_FallbackOrder ==
    (last.op \in FallbackOps /\ (last.op = "endowment_insurance" => last.args[3] >= 0)) =>
        LET own == OwnKind(last.op, last.args)
        IN  /\ own # None => last.r = own /\ ~ViaTwin /\ ~Delegated
            /\ ViaTwin =>
                  /\ own = None
                  /\ TwinApplies(last.op, last.args)
                  /\ IsVal(OtherKind(last.op, last.args))
            /\ Delegated =>
                  /\ own = None
                  /\ TwinApplies(last.op, last.args) =>
                        OtherKind(last.op, last.args) = None

\* a whole-life insurance came from the twin step, after its own resolver
\* returned unknown, while the collaborator had an answer ready
C11_TwinBeforeCollaborator ==
    /\ last.op = "whole_life_insurance"
    /\ ViaTwin
    /\ parent = Collab
    /\ IsVal(last.r)
    /\ OwnKind(last.op, last.args) = None

(***************************************************************************)
(* The collaborator behind the public computed methods.                    *)
(***************************************************************************)
\* the resolver behind a public method of mortality, survival, lifetime or
\* pure endowment (E_x's variance branch does not use its resolver)
ResolverOf(op) ==
    CASE op = "q_x" -> "_q_x"
      [] op = "p_x" -> "_p_x"
      [] op = "e_x" -> "_e_x"
      [] op = "E_x" -> "_E_x"

\* q_x, p_x, e_x or E_x (first moment) was called, its resolver derives
\* nothing from the stored facts, and the collaborator has a closed-form
\* value for the quantity
ResolverGaveUp ==
    /\ last.op \in {"q_x", "p_x", "e_x", "E_x"}
    /\ last.op = "E_x" => last.args[5] = 1
    /\ Call(ResolverOf(last.op), NewBlog, last.args, maxdepth).r = None
    /\ parent = Collab

\* C12: when the resolver cannot derive a mortality rate, survival
\* probability, expected lifetime or pure endowment from the stored facts,
\* q_x, p_x, e_x and E_x return the collaborator's closed-form value, as the
\* insurance and annuity facades do, and not unknown.
C12_CollaboratorForEveryKind == ResolverGaveUp => last.r = Collab

\* deferred_insurance(x, s, b, u, t, moment, discrete) was called with a
\* deferral u > 0 and the bounded insurance resolver, started at maxdepth
\* with that deferral, derives a value for it
DeferredDerivable ==
    /\ last.op = "deferred_insurance"
    /\ last.args[4] > 0
    /\ IsVal(Call("_A_x", NewBlog,
                  <<last.args[1], last.args[2], last.args[5], last.args[4], last.args[3],
                    last.args[7], 0, last.args[6]>>, maxdepth).r)

\* C13: deferred_insurance(x, u, t) runs the bounded insurance resolver
\* (_A_x with deferral u, from depth maxdepth) before it delegates to the
\* collaborator: a deferred insurance that the resolver derives from the
\* stored facts is the result of the call.
C13_DeferredInsuranceResolved ==
    DeferredDerivable =>
        last.r = Call("_A_x", NewBlog,
                      <<last.args[1], last.args[2], last.args[5], last.args[4], last.args[3],
                        last.args[7], 0, last.args[6]>>, maxdepth).r

(***************************************************************************)
(* Keying by absolute age (checked under SpecKeys).                        *)
(***************************************************************************)
\* the arguments a of a get_<kind> or public method (x, s, ...) with the
\* same absolute age reached with no years elapsed
AtAge(a) == <<a[1] + a[2], 0>> \o SubSeq(a, 3, Len(a))

\* get_<kind>(a)
GetBy(op, a) ==
    CASE op = "get_q" -> get_q(a[1], a[2], a[3], a[4])
      [] op = "get_p" -> get_p(a[1], a[2], a[3])
      [] op = "get_e" -> get_e(a[1], a[2], a[3], a[4], a[5])
      [] op = "get_E" -> get_E(a[1], a[2], a[3], a[4], a[5])
      [] op = "get_IA" -> get_IA(a[1], a[2], a[3], a[4], a[5])
      [] op = "get_DA" -> get_DA(a[1], a[2], a[3], a[4], a[5])
      [] op = "get_A" -> get_A(a[1], a[2], a[4], a[3], a[5], a[6], a[7], a[8])
      [] op = "get_a" -> get_a(a[1], a[2], a[4], a[3], a[5], a[6], a[7])

\* set_<kind>(val, a)
SetBy(op, val, a) ==
    CASE op = "set_q" -> set_q(val, a[1], a[2], a[3], a[4])
      [] op = "set_p" -> set_p(val, a[1], a[2], a[3])
      [] op = "set_e" -> set_e(val, a[1], a[2], a[3], a[4], a[5])
      [] op = "set_E" -> set_E(val, a[1], a[2], a[3], a[4], a[5])
      [] op = "set_IA" -> set_IA(val, a[1], a[2], a[3], a[4], a[5])
      [] op = "set_DA" -> set_DA(val, a[1], a[2], a[3], a[4], a[5])
      [] op = "set_A" -> set_A(val, a[1], a[2], a[3], a[4], a[5], a[6], a[7], a[8])
      [] op = "set_a" -> set_a(val, a[1], a[2], a[3], a[4], a[5], a[6], a[7])

\* a lookup or public method at (x, s) answers what it answers at
\* (x + s, 0)
SameAtAge ==
    /\ last.op \in GetOps => last.r = GetBy(last.op, AtAge(last.args))
    /\ last.op \in PublicOps =>
          last.r = Finish(Invoke(last.op, AtAge(last.args)), parent).r

\* a set at (x, s) leaves the store that the set at (x + s, 0) leaves
SameEntry ==
    last'.op \in SetOps =>
        db' = SetBy(last'.op, last'.args[1], AtAge(Tail(last'.args))).db

AmountOps ==
    {"get_E", "get_IA", "get_DA", "get_A", "get_a", "E_x", "increasing_insurance",
     "decreasing_insurance", "whole_life_insurance", "whole_life_annuity"}

\* the amount (endowment, or benefit b) a call o was made for
AmountOf(o) ==
    CASE o.op \in {"get_E", "get_IA", "get_DA", "E_x", "increasing_insurance",
                   "decreasing_insurance"} -> o.args[4]
      [] o.op \in {"get_A", "get_a"} -> o.args[5]
      [] o.op \in {"whole_life_insurance", "whole_life_annuity"} -> o.args[3]

\* what the store holds, for amount 1, under the key of the call o
UnitFact(o) ==
    LET a == o.args
    IN  CASE o.op = "get_E" -> get_E(a[1], a[2], a[3], 1, a[5])
          [] o.op = "E_x" -> get_E(a[1], a[2], a[3], 1, a[5])
          [] o.op = "get_IA" -> get_IA(a[1], a[2], a[3], 1, a[5])
          [] o.op = "increasing_insurance" -> get_IA(a[1], a[2], a[3], 1, a[5])
          [] o.op = "get_DA" -> get_DA(a[1], a[2], a[3], 1, a[5])
          [] o.op = "decreasing_insurance" -> get_DA(a[1], a[2], a[3], 1, a[5])
          [] o.op = "get_A" -> get_A(a[1], a[2], a[4], a[3], 1, a[6], a[7], a[8])
          [] o.op = "whole_life_insurance" -> get_A(a[1], a[2], 0, WHOLE, 1, a[5], 0, a[4])
          [] o.op = "get_a" -> get_a(a[1], a[2], a[4], a[3], 1, a[6], a[7])
          [] o.op = "whole_life_annuity" -> get_a(a[1], a[2], 0, WHOLE, 1, a[4], a[5])

\* C15: a fact stored for amount 1 and requested for amount k, through
\* get_<kind> or through the public computed method when the key is a store
\* hit, comes back as k times the stored value, for pure endowments,
\* increasing and decreasing insurance, insurance and annuities.
C15_AmountScaling ==
    (last.op \in AmountOps /\ UnitFact(last) # None)
        => last.r = Mul(R(AmountOf(last)), UnitFact(last))

(***************************************************************************)
(* The tracer (checked under SpecBlog).                                    *)
(***************************************************************************)
NoDuplicates(q) == \A i, j \in 1..Len(q) : q[i] = q[j] => i = j

\* C16: after any sequence of Blog.__call__ invocations _history holds no
\* two equal messages and _history, _depths and _rules have the same length;
\* a call with a message already present changes nothing, so the message
\* keeps the depth and rule of its first insertion; a call with a new
\* message puts the message, its depth and its rule at index 0 of the three
\* lists, ahead of the older entries in their order.
C16_TracerRecord ==
    /\ NoDuplicates(blog._history)
    /\ Len(blog._depths) = Len(blog._history)
    /\ Len(blog._rules) = Len(blog._history)
    /\ last.op = "Blog.__call__" =>
          IF last.args[1] \in SeqRange(prev.blog._history)
          THEN Lists(blog) = Lists(prev.blog)
          ELSE /\ blog._history = <<last.args[1]>> \o prev.blog._history
               /\ blog._depths = <<last.args[2]>> \o prev.blog._depths
               /\ blog._rules = <<last.args[3]>> \o prev.blog._rules

\* a message recorded before was passed again with another depth and another
\* rule, behind a newer message
C16_PassedAgain ==
    /\ last.op = "Blog.__call__"
    /\ Len(blog._history) = 2
    /\ blog._history[2] = last.args[1]
    /\ blog._depths[2] # last.args[2]
    /\ blog._rules[2] # last.args[3]

\* C17: str(blog) is empty whenever verbosity is disabled or no step was
\* recorded; otherwise it is the title line followed by exactly one line
\* per recorded message, in the stored newest-first order, each line made
\* of that step's message and ending with that step's rule.
C17_Rendering ==
    last.op = "Blog.__str__" =>
        IF ~verbose \/ blog._history = <<>>
        THEN out = <<>>
        ELSE /\ Len(out) = 1 + Len(blog._history)
             /\ out[1] = blog.title
             /\ \A j \in 1..Len(blog._history) :
                    /\ out[j + 1][2] = blog._history[j]
                    /\ out[j + 1][Len(out[j + 1])] = blog._rules[j]

\* a tracer holding two steps was rendered with verbosity on
C17_TwoLines ==
    /\ last.op = "Blog.__str__"
    /\ verbose
    /\ Len(blog._history) = 2
    /\ Len(out) = 3

(***************************************************************************)
(* Freshness of the tracer (checked under SpecFresh).                      *)
(***************************************************************************)
\* the resolver calls the public method op makes for the arguments a (as
\* resolver name and resolver arguments), all at depth maxdepth
ResolverRuns(op, a) ==
    CASE op = "q_x" -> {<<"_q_x", a>>}
      [] op = "p_x" -> {<<"_p_x", a>>}
      [] op = "e_x" -> {<<"_e_x", a>>}
      [] op = "E_x" ->
           IF a[5] = VARIANCE THEN {<<"_p_x", <<a[1], a[2], a[3]>>>>} ELSE {<<"_E_x", a>>}
      [] op = "increasing_insurance" -> {<<"_IA_x", a>>}
      [] op = "decreasing_insurance" -> {<<"_DA_x", a>>}
      [] op = "whole_life_insurance" ->
           {<<"_A_x", <<a[1], a[2], WHOLE, 0, a[3], a[4], 0, a[5]>>>>,
            <<"_a_x", <<a[1], a[2], WHOLE, 0, a[3], a[4], FALSE>>>>}
      [] op = "term_insurance" ->
           {<<"_A_x", <<a[1], a[2], a[3], 0, a[4], a[6], 0, a[5]>>>>}
      [] op = "deferred_insurance" -> {}
      [] op = "endowment_insurance" ->
           {<<"_A_x", <<a[1], a[2], a[3], 0, a[4], a[7],
                        IF a[5] < 0 THEN a[4] ELSE a[5], a[6]>>>>}
      [] op = "whole_life_annuity" ->
           {<<"_a_x", <<a[1], a[2], WHOLE, 0, a[3], a[5], a[4]>>>>,
            <<"_A_x", <<a[1], a[2], WHOLE, 0, a[3], a[5], 0, 1>>>>}
      [] op = "temporary_annuity" ->
           {<<"_a_x", <<a[1], a[2], a[3], 0, a[4], a[6], a[5]>>>>,
            <<"_A_x", <<a[1], a[2], a[3], 0, a[4], a[6], a[4], 1>>>>}
      [] op = "deferred_annuity" ->
           {<<"_a_x", <<a[1], a[2], a[3], a[4], a[5], a[6], FALSE>>>>,
            <<"_a_x", <<a[1], a[2], add_term(a[4], a[3]), 0, a[5], a[6], FALSE>>>>,
            <<"_a_x", <<a[1], a[2], a[4], 0, a[5], a[6], FALSE>>>>}

\* the messages a public method records itself, for its twin step
TwinMessages(op, a) ==
    CASE op = "whole_life_insurance" -> {<<"A_x = 1 - d * a_x">>}
      [] op = "whole_life_annuity" -> {<<"a_x = (1-A_x) / d">>}
      [] op = "temporary_annuity" ->
           {<<"a = [ 1 - A ] / d(t=)">> \o Blog_a(a[1], a[2], a[3], 0, 1, FALSE)
                \o Blog_A(a[1], a[2], a[3], 0, 1, 1, 0) \o <<a[3]>>}
      [] OTHER -> {}

\* every message the call (op, a) can record: those its resolvers record
\* when started on an empty tracer, and its own
RecordedBy(op, a) ==
    UNION {SeqRange(Call(run[1], NewBlog, run[2], maxdepth).h._history) :
               run \in ResolverRuns(op, a)}
        \cup TwinMessages(op, a)

\* C18: every public computed method starts with a new, empty tracer, so
\* the tracer it leaves holds only steps recorded during that call and
\* never a step left by an earlier public call.
C18_FreshTracer ==
    last.op \in PublicOps =>
        \A j \in 1..Len(blog._history) :
            blog._history[j] \in RecordedBy(last.op, last.args)

\* a second public call followed a first one that had recorded steps, and
\* left steps of its own with none of the first call's among them
C18_SecondCall ==
    /\ last.op \in PublicOps
    /\ prev.op \in PublicOps
    /\ Len(prev.blog._history) > 0
    /\ Len(blog._history) > 0
    /\ SeqRange(prev.blog._history) \cap SeqRange(blog._history) = {}

(***************************************************************************)
(* Priority of the identities of deferred mortality (checked under         *)
(* SpecPriority).                                                          *)
(***************************************************************************)
\* p(x, term) as the survival resolver derives it for the mortality call
\* last, with one unit less of depth, from an empty tracer
SurvivalOver(term) ==
    Call("_p_x", NewBlog, <<last.args[1], last.args[2], term>>, maxdepth - 1)

\* the prerequisites of the three identities for the call last =
\* q_x(x, s, t, u)
DeferResolves ==
    /\ IsVal(SurvivalOver(last.args[4]).r)
    /\ get_q(last.args[1], last.args[2] + last.args[4], last.args[3], 0) # None

LimitResolves ==
    /\ get_q(last.args[1], last.args[2], last.args[4], 0) # None
    /\ get_q(last.args[1], last.args[2], last.args[4] + last.args[3], 0) # None

ComplementResolves ==
    /\ maxdepth > 0
    /\ IsVal(SurvivalOver(last.args[4]).r)
    /\ IsVal(SurvivalOver(last.args[4] + last.args[3]).r)

\* the tracer holds one step of the given rule on top of the steps of the
\* derivation of p(x, u), and nothing else
OneStepOver(rule) ==
    /\ Len(blog._history) = 1 + Len(SurvivalOver(last.args[4]).h._history)
    /\ blog._rules[1] = rule
    /\ Tail(blog._history) = SurvivalOver(last.args[4]).h._history

\* the newest step of the tracer is of the given rule: the identity of that
\* rule gave the result of the call last
ByRule(rule) == Len(blog._rules) > 0 /\ blog._rules[1] = rule

\* the order of the identities for the call last: defer answers whenever it
\* resolves; limit answers when defer does not resolve and limit does, and
\* only then; complement survival answers only when neither resolves and
\* depth > 0; the identities after the one that answered left no step
FirstSuccessWins ==
    LET x == last.args[1]
        sel == last.args[2]
        t == last.args[3]
        u == last.args[4]
        pu == SurvivalOver(u).r
        put == SurvivalOver(u + t).r
    IN  /\ DeferResolves =>
              /\ last.r = Mul(pu, get_q(x, sel + u, t, 0))
              /\ OneStepOver("defer mortality")
        /\ (~DeferResolves /\ LimitResolves) => ByRule("limit mortality")
        /\ ByRule("limit mortality") =>
              /\ ~DeferResolves
              /\ LimitResolves
              /\ last.r = Sub(get_q(x, sel, u + t, 0), get_q(x, sel, u, 0))
              /\ OneStepOver("limit mortality")
        /\ ByRule("complement survival") =>
              /\ ~DeferResolves
              /\ ~LimitResolves
              /\ maxdepth > 0
              /\ last.r = Sub(pu, put)

\* q_x(x, s, t, u) was called with u > 0 for a key that is not stored, and
\* the derivation of p(x, u) does not raise
DeferredUnstored ==
    /\ last.op = "q_x"
    /\ last.args[4] > 0
    /\ get_q(last.args[1], last.args[2], last.args[3], last.args[4]) = None
    /\ SurvivalOver(last.args[4]).r # Raise

\* C20 as claimed: when the key u|t q_x is not stored and u > 0, the defer
\* result p(x,u) * q(x+u,t) is returned whenever its prerequisites resolve,
\* even if q(x,u) and q(x,u+t) are stored too; the limit result
\* q(x,u+t) - q(x,u) only when defer fails; the complement-survival result
\* p(x,u) - p(x,u+t) only when both fail and depth > 0; no later identity
\* is evaluated once an earlier one succeeded; for every term t.
C20_PriorityAnyTerm == DeferredUnstored => FirstSuccessWins

\* C20 as amended: the same for every term t >= 1 (a term of 0 or a negative
\* term is answered by its sentinel before any identity is tried).
C20_Priority == (DeferredUnstored /\ last.args[3] >= 1) => FirstSuccessWins

\* the defer identity answered while the facts of the limit identity were
\* stored too and give another value
C20_DeferOverLimit ==
    /\ DeferredUnstored
    /\ last.args[3] >= 1
    /\ DeferResolves
    /\ LimitResolves
    /\ last.r # Sub(get_q(last.args[1], last.args[2], last.args[4] + last.args[3], 0),
                    get_q(last.args[1], last.args[2], last.args[4], 0))
    /\ blog._rules[1] = "defer mortality"

(***************************************************************************)
(* Termination of the mutual recursion (checked under SpecChain).          *)
(***************************************************************************)
\* the weight of a method among the methods that run at one depth: a method
\* weighs more than every method it calls without lowering the depth
Weight(f, a) ==
    IF f = "_p_x" THEN 0
    ELSE IF f = "_E_x" THEN (IF a[5] > 1 THEN 2 ELSE 1)
    ELSE IF f = "_e_x" THEN 2
    ELSE IF f \in Resolvers THEN 1
    ELSE IF f = "p_x" THEN 3
    ELSE 4

\* a natural number for every frame
Rank(fr) == 5 * Max(fr.depth, 0) + Weight(fr.f, fr.a)

\* a step in which the method on top of the stack calls a method
RankFalls == (frame # NoFrame /\ frame' # NoFrame) => Rank(frame') < Rank(frame)

ChainBounded ==
    frame # NoFrame => frame.nest + Rank(frame) <= 5 * Max(maxdepth, 0) + 5

\* every chain of nested calls is finite: every call from one method of the
\* engine to another (at a lower depth, at the same depth, at the default
\* depth 1 or at the collateral depth 1 - abs(depth)) strictly lowers the
\* rank of the frame, a natural number, so a chain is never longer than
\* 5 * max(maxdepth, 0) + 5 frames
NoInfiniteChain == []ChainBounded /\ [][RankFalls]_vars

\* with a negative maxdepth, E_x has called _E_x for a second moment, which
\* called _E_x at the same depth, which called _p_x below that depth
C19_ChainBelowZero ==
    /\ maxdepth < 0
    /\ frame.f = "_p_x"
    /\ frame.nest = 4
    /\ frame.depth = maxdepth - 1

\* control is back with the client, with a value or with unknown (None)
ReturnedValueOrUnknown == (last.op \in PublicOps) => last.r # Raise

\* C19: for any configured maxdepth, zero and negative values included, every
\* public computed method returns a value or unknown: the mutual recursion
\* of the resolvers has no infinite call chain, and the call that was made
\* hands the client a value or None.
C19_Termination == NoInfiniteChain /\ []ReturnedValueOrUnknown

(***************************************************************************)
(* Base cases and the store (checked under SpecSentinel).                  *)
(***************************************************************************)
\* the value of the base case for the term of the call o
SentinelOf(o) ==
    LET t == o.args[3]
    IN  CASE o.op = "q_x" -> IF t = 0 THEN R(0) ELSE R(1)
          [] o.op = "p_x" -> IF t = 0 THEN R(1) ELSE R(0)
          [] o.op = "E_x" -> IF t = 0 THEN Pow(R(o.args[4]), o.args[5]) ELSE R(0)
          [] OTHER -> R(0)

\* C21: a public method called for a base-case term (t = 0 or t < 0)
\* returns the value of the base case (q: 0 and 1; p: 1 and 0; E:
\* endowment^moment and 0; IA, DA, a: 0 for t = 0), whatever fact is stored
\* under that term.
C21_SentinelsBeforeStore ==
    (last.op \in PublicOps) => last.r = SentinelOf(last)


\* a mortality fact stored under the term 0 is what q_x returns for it
C21_StoredUnderSentinel ==
    /\ last.op = "q_x" /\ last.args[3] = 0
    /\ <<"q", last.args[1], 0, 0>> \in DOMAIN db
    /\ last.r = db[<<"q", last.args[1], 0, 0>>]


(***************************************************************************)
(* The depth budget along a chain of calls (checked under SpecChain).      *)
(***************************************************************************)
\* a public method hands maxdepth to the method it calls
StartsAtMaxdepth ==
    (frame.f \in PublicOps /\ frame'.nest = frame.nest + 1)
        => frame'.depth = maxdepth

\* a resolver hands a resolver a budget smaller than its own
BudgetFalls ==
    (frame.f \in Resolvers /\ frame'.nest = frame.nest + 1)
        => frame'.depth < frame.depth

\* C22: a public call starts its resolver at maxdepth, and every call a
\* resolver makes to a resolver passes a depth budget strictly smaller than
\* the caller's own, never one equal to it or larger.
C22_DepthBudget == [][StartsAtMaxdepth /\ BudgetFalls]_vars

\* the moment shortcut of _E_x has called _E_x with the budget of its caller
C22_SameBudget ==
    /\ frame.op = "E_x" /\ frame.nest = 3 /\ frame.f = "_E_x"
    /\ frame.depth = maxdepth /\ maxdepth > 0


(***************************************************************************)
(* The survival chain rule (checked under SpecExercise).                   *)
(***************************************************************************)
\* the store of the exercise: p_0, p_1, 3_p_1 and q_3
ExerciseStore ==
    DOMAIN db = {db_key_p(0, 1), db_key_p(1, 1), db_key_p(1, 3), db_key_q(3, 1, 0)}

\* the answers the exercise prints: 0.98, 0.97515, 0.96939, 0.95969, 0.03031
ExerciseAnswers ==
    /\ last.op = "p_x" /\ last.args = <<3, 0, 1>> => last.r = <<49, 50>>
    /\ last.op = "p_x" /\ last.args = <<0, 0, 2>> => last.r = <<19503, 20000>>
    /\ last.op = "p_x" /\ last.args = <<1, 0, 2>> => last.r = <<95, 98>>
    /\ last.op = "p_x" /\ last.args = <<0, 0, 3>> => last.r = <<1881, 1960>>
    /\ last.op = "q_x" => last.r = <<297, 9800>>

\* C23: with facts that agree with one another stored and depth 3, p_x for a
\* key that is not stored returns, when an identity fires, the survival the
\* chain rule implies; on the store of the exercise p_x(3), p_x(0, t=2),
\* p_x(1, t=2), p_x(0, t=3) and q_x(0, t=2, u=1) return 0.98, 0.97515,
\* 0.96939, 0.95969 and 0.03031.
C23_ChainRule ==
    /\ (last.op = "p_x" /\ db_key_p(last.args[1], last.args[3]) \notin DOMAIN db
            /\ IsVal(last.r))
        => last.r = Exercise_tp(last.args[1], last.args[3])
    /\ ExerciseStore => ExerciseAnswers

\* the two-year survival of age 1 was derived on the store of the exercise
C23_Derived ==
    /\ ExerciseStore
    /\ last.op = "p_x" /\ last.args = <<1, 0, 2>> /\ last.r = <<95, 98>>


(***************************************************************************)
(* The backward recursion of the annuity (checked under SpecBackward).     *)
(***************************************************************************)
\* the whole-life annuity of age x is asked, it is not stored, the one of
\* age x+1 is, and so is the one-year survival or mortality of age x
BackwardCase ==
    /\ last.op = "whole_life_annuity"
    /\ db_key_a(last.args[1], 0, WHOLE, FALSE, TRUE) \notin DOMAIN db
    /\ db_key_a(last.args[1] + 1, 0, WHOLE, FALSE, TRUE) \in DOMAIN db
    /\ \/ db_key_p(last.args[1], 1) \in DOMAIN db
       \/ db_key_q(last.args[1], 1, 0) \in DOMAIN db

\* the one-year survival the facts give: the stored p, else 1 - q
StoredSurvival(x) ==
    IF db_key_p(x, 1) \in DOMAIN db THEN db[db_key_p(x, 1)]
    ELSE Sub(R(1), db[db_key_q(x, 1, 0)])

\* b + v * p_x * a_(x+1), the annuity of age x+1 scaled by b
BackwardValue(x, b) ==
    Add(R(b), Mul(Mul(interest_v, StoredSurvival(x)),
                  Mul(R(b), db[db_key_a(x + 1, 0, WHOLE, FALSE, TRUE)])))

\* i = 0.06, a_1 = 7 and q_0 = 0.05 stored: the answer is 1 + 0.95 * 7 / 1.06
BackwardExample ==
    (/\ interest = <<3, 50>>
     /\ db = (db_key_a(1, 0, WHOLE, FALSE, TRUE) :> R(7)) @@ (db_key_q(0, 1, 0) :> <<1, 20>>)
     /\ last.op = "whole_life_annuity" /\ last.args = <<0, 0, 1, FALSE, TRUE>>
     /\ maxdepth > 0)
        => last.r = <<771, 106>>

\* C24 (as stated): whenever the annuity of age x is not stored, that of age
\* x+1 is stored and p_x is stored or q_x is, whole_life_annuity(x, b=b)
\* returns b + v * p_x * a_(x+1), whatever the depth and the other facts.
C24_BackwardAnyStore ==
    /\ BackwardCase => last.r = BackwardValue(last.args[1], last.args[3])
    /\ BackwardExample

\* C24 (amended): the same for maxdepth >= 1 and no one-year pure endowment
\* of age x stored.
C24_Backward ==
    /\ (BackwardCase /\ maxdepth >= 1
            /\ db_key_E(last.args[1], 1, 1) \notin DOMAIN db)
        => last.r = BackwardValue(last.args[1], last.args[3])
    /\ BackwardExample

\* the example of the module's own run: 1 + 0.95 * 7 / 1.06
C24_Example ==
    /\ BackwardCase /\ interest = <<3, 50>> /\ last.r = <<771, 106>>
    /\ last.args[3] = 1


(***************************************************************************)
(* The moment shortcut of the pure endowment (checked under SpecMoment).   *)
(***************************************************************************)
\* the first moment of the pure endowment the call last asked, on this store
FirstMoment == Invoke("E_x", <<last.args[1], last.args[2], last.args[3], last.args[4], 1>>).r

\* a moment above the first is asked, its key is not stored, and the first
\* moment of the same age and term resolves
MomentCase ==
    /\ last.op = "E_x" /\ last.args[5] > 1
    /\ db_key_E(last.args[1], last.args[3], last.args[5]) \notin DOMAIN db
    /\ IsVal(FirstMoment)

\* C25: for a moment above the first and any term t, when the key is not
\* stored and the first moment of the same age and the same term resolves,
\* the result is that first moment times v^(moment-1), a first moment of 0
\* included.
C25_MomentShortcut ==
    MomentCase => last.r = Mul(FirstMoment, Pow(interest_v, last.args[5] - 1))

\* the first moment of the two-year pure endowment resolves, and the second
\* moment asked is not that value times v
C25_OtherTerm ==
    /\ MomentCase /\ last.args[3] = 2 /\ Truthy(FirstMoment)
    /\ last.r # Mul(FirstMoment, Pow(interest_v, last.args[5] - 1))


(***************************************************************************)
(* The identities of the varying insurances (checked under SpecVarying).   *)
(***************************************************************************)
\* what a resolver returns for the age and term of the last call, with one
\* unit less of depth, as an identity of that call asks it
Resolved(f, a) == Call(f, NewBlog, a, maxdepth - 1).r

\* n * A - other, for the last call's age x and term t (n = t + 1, discrete)
VaryingIdentity(other) ==
    LET x == last.args[1]
        t == last.args[3]
        A == Resolved("_A_x", <<x, 0, t, 0, 1, TRUE, 0, 1>>)
        V == Resolved(other, <<x, 0, t, 1, TRUE>>)
    IN  IF IsVal(A) /\ IsVal(V) THEN Sub(Mul(A, R(t + 1)), V) ELSE None

\* v * ((1 - p) * t + p * DA_remaining), DA_remaining from the resolver of
\* the decreasing insurance at age x+1 and term t-1
DecreasingBackward ==
    LET x == last.args[1]
        t == last.args[3]
        DA == Resolved("_DA_x", <<x, 1, t - 1, 1, TRUE>>)
        p == Call("_p_x", NewBlog, <<x, 0, 1>>, Collateral(maxdepth)).r
    IN  IF IsVal(DA) /\ IsVal(p)
        THEN Mul(interest_v, Add(Mul(Sub(R(1), p), R(t)), Mul(p, DA)))
        ELSE None

\* C26: for t > 0 and DA not stored the decreasing insurance is n*A - IA,
\* IA from the resolver of the increasing insurance for the same age and
\* term, and otherwise v*((1-p)*t + p*DA_remaining), DA_remaining from the
\* resolver of the decreasing insurance at age x+1 and term t-1; the
\* increasing insurance is n*A - DA, DA from the resolver of the decreasing
\* insurance.
C26_NamedKind ==
    /\ (/\ last.op = "decreasing_insurance" /\ maxdepth > 0
        /\ db_key_DA(last.args[1], last.args[3], TRUE) \notin DOMAIN db)
        => IF VaryingIdentity("_IA_x") # None
           THEN last.r = VaryingIdentity("_IA_x")
           ELSE DecreasingBackward # None => last.r = DecreasingBackward
    /\ (/\ last.op = "increasing_insurance" /\ maxdepth > 0
        /\ db_key_IA(last.args[1], last.args[3], TRUE) \notin DOMAIN db
        /\ VaryingIdentity("_DA_x") # None)
        => last.r = VaryingIdentity("_DA_x")

\* A and IA of the age and term are stored, and the decreasing insurance
\* returned is not n*A - IA
C26_IdentityMissed ==
    /\ last.op = "decreasing_insurance" /\ maxdepth > 0
    /\ db_key_DA(last.args[1], last.args[3], TRUE) \notin DOMAIN db
    /\ db_key_IA(last.args[1], last.args[3], TRUE) \in DOMAIN db
    /\ db_key_A(last.args[1], 0, last.args[3], 1, R(0), TRUE) \in DOMAIN db
    /\ last.r # VaryingIdentity("_IA_x")


(***************************************************************************)
(* The twin of the endowment insurance (checked under SpecEndowment).      *)
(***************************************************************************)
\* the temporary annuity of the last call's age and term, from the resolver
\* of the annuity at maxdepth
TwinAnnuity ==
    Invoke("_a_x", <<last.args[1], last.args[2], last.args[3], 0, last.args[4],
                     TRUE, FALSE>>).r

\* the endowment insurance is asked with endowment = b, moment 1 and i > 0,
\* its resolver returns unknown and the temporary annuity is derivable
TwinCase ==
    /\ last.op = "endowment_insurance" /\ last.args[6] = 1 /\ interest[1] > 0
    /\ Invoke("_A_x", <<last.args[1], last.args[2], last.args[3], 0, last.args[4],
                        TRUE, last.args[4], 1>>).r = None
    /\ IsVal(TwinAnnuity)

\* C27: endowment_insurance(x, t, b, endowment = b, moment = 1) with i > 0,
\* the resolver of the insurance returning unknown and the temporary annuity
\* derivable at maxdepth, returns the twin value 1 - d * a.
C27_EndowmentTwin == TwinCase => last.r = insurance_twin(TwinAnnuity)

\* the twin step was reached and the call ended in an exception
C27_TwinRaises == TwinCase /\ last.r = Raise


(***************************************************************************)
(* The deferred insurance of the resolver (checked under SpecHelper).      *)
(***************************************************************************)
\* what the identities of the deferred branch ask, for the last call of
\* _A_x(x, s, t, u, b, discrete, endowment, moment, depth): the insurance at
\* age x+d with deferral u-d and the one-year pure endowment at the age e
DeferredAsked(d) ==
    Call("_A_x", NewBlog,
         <<last.args[1], last.args[2] + d, last.args[3], last.args[4] - d, last.args[5],
           last.args[6], last.args[7], last.args[8]>>, last.args[9] - 1).r

EndowmentAsked(e) ==
    Call("_E_x", NewBlog, <<last.args[1], last.args[2] + e, 1, 1, last.args[8]>>,
         last.args[9] - 1).r

\* the resolver was called with u > 0 and depth > 0 for a key not stored
DeferredCase ==
    /\ last.op = "_A_x" /\ last.args[4] > 0 /\ last.args[9] > 0
    /\ get_A(last.args[1], last.args[2], last.args[4], last.args[3], last.args[5],
             last.args[8], last.args[7], last.args[6]) = None

\* the forward identity insurance(x-1, u+1) / pure_endowment(x-1, 1), or
\* unknown
DeferredForward ==
    IF IsVal(DeferredAsked(-1)) /\ IsVal(EndowmentAsked(-1))
    THEN Div(DeferredAsked(-1), EndowmentAsked(-1))
    ELSE None

\* C28: for u > 0, depth > 0 and the deferred key not stored, _A_x returns
\* pure_endowment(x, 1) * insurance(x+1, deferral u-1) when both resolve;
\* when the pure endowment does not resolve it returns the forward identity
\* insurance(x-1, deferral u+1) / pure_endowment(x-1, 1), or unknown if
\* that fails too.
C28_DeferredBackward ==
    DeferredCase =>
        /\ (IsVal(DeferredAsked(1)) /\ IsVal(EndowmentAsked(0)))
            => last.r = Mul(EndowmentAsked(0), DeferredAsked(1))
        /\ EndowmentAsked(0) = None => last.r = DeferredForward

\* the insurance one year later and the pure endowment both resolve, and the
\* call ended in an exception
C28_BackwardRaises ==
    /\ DeferredCase
    /\ IsVal(DeferredAsked(1)) /\ IsVal(EndowmentAsked(0))
    /\ last.r = Raise


(***************************************************************************)
(* What the tracer holds after a derivation of survival (checked under     *)
(* SpecExercise, whose stores hold survival and mortality facts).          *)
(***************************************************************************)
\* the value _p_x returns for (x, s, t) at a depth, on this store
Value_p_x(x, s, t, depth) == Call("_p_x", NewBlog, <<x, s, t>>, depth).r

\* The tracer messages of the identities from which the value of
\* _p_x(x, s, t, depth) is computed: none for a stored survival, the
\* complement's for a stored mortality, and for the chain-rule identity that
\* fires its own message and those of its two prerequisites.  When the value
\* comes from none of these, every entry of the tracer counts as used.
RECURSIVE Used_p_x(_, _, _, _)
Used_p_x(x, s, t, depth) ==
    LET fires(s1, t1, s2) ==
            /\ IsVal(Value_p_x(x, s1, t1, depth - 1))
            /\ IsVal(Value_p_x(x, s2, 1, Collateral(depth)))
        used(sign, s1, t1, s2) ==
            {<<sign>> \o Blog_p(x, s, t) \o Blog_p(x, s1, t1) \o Blog_p(x, s2, 1)}
                \cup Used_p_x(x, s1, t1, depth - 1)
                \cup Used_p_x(x, s2, 1, Collateral(depth))
    IN  IF get_p(x, s, t) # None THEN {}
        ELSE IF get_q(x, s, t, 0) # None
        THEN {<<"p = 1 - q">> \o Blog_p(x, s, t) \o Blog_q(x, s, t, 0)}
        ELSE IF depth <= 0 THEN {}
        ELSE IF fires(s - 1, t + 1, s - 1) THEN used("p = p / p", s - 1, t + 1, s - 1)
        ELSE IF fires(s, t + 1, s + t) THEN used("p = p / p", s, t + 1, s + t)
        ELSE IF t > 1 /\ fires(s + 1, t - 1, s) THEN used("p = p * p", s + 1, t - 1, s)
        ELSE IF t > 1 /\ fires(s, t - 1, s + t - 1)
        THEN used("p = p * p", s, t - 1, s + t - 1)
        ELSE SeqRange(blog._history)

\* C29: at the end of a successful public call every entry of the tracer
\* names an identity whose result was used in computing the value returned;
\* a derivation made inside a branch that was abandoned leaves no entry.
C29_OnlyWhatFired ==
    (last.op = "p_x" /\ IsVal(last.r))
        => SeqRange(blog._history)
               \subseteq Used_p_x(last.args[1], last.args[2], last.args[3], maxdepth)

\* p_x(0) returned 2_p_0 / p_1, the only identity its value was computed
\* from, and the tracer also holds the one-year annuity that a derivation
\* inside the abandoned first identity recorded
C29_Abandoned ==
    /\ last.op = "p_x" /\ last.args = <<0, 0, 1>> /\ last.r = <<99, 100>>
    /\ Used_p_x(0, 0, 1, maxdepth)
           = {<<"p = p / p">> \o Blog_p(0, 0, 1) \o Blog_p(0, 0, 2) \o Blog_p(0, 1, 1)}
    /\ "one-year discrete annuity" \in SeqRange(blog._rules)


(***************************************************************************)
(* Two objects (checked under SpecIsolation).                              *)
(***************************************************************************)
\* while the client works on one object, the attributes of the other stay
\* as they are
PeerUntouched == (peer # NoObject /\ peer'.name = peer.name) => peer' = peer

\* the first object was constructed with verbose=True: a successful call on
\* it that recorded steps prints its tracer
VerbosityKept ==
    (/\ Current = "R1" /\ last.op \in PublicOps /\ IsVal(last.r)
     /\ blog._history # <<>>)
        => out # <<>>

\* C30: the fact store, the tracer and the tracer verbosity of one object
\* are unaffected by constructing, configuring or calling another object;
\* after the first is created with verbose=True and a second with
\* verbose=False, a successful public call on the first still renders its
\* tracer.
C30_Isolation == []VerbosityKept /\ [][PeerUntouched]_vars

\* the second object was constructed with verbose=False, and a call on the
\* first that recorded a step printed nothing
C30_Silenced ==
    /\ Current = "R1" /\ peer.name = "R2" /\ ~verbose
    /\ last.op = "p_x" /\ IsVal(last.r)
    /\ blog._history # <<>> /\ out = <<>>

====
